---- MODULE Spec2Model ----
(***************************************************************************)
(* Membership-churn analysis scripts of the NLdigital repository:          *)
(*   - slug normalisation (slugify, extract_company_name, normalize_slug), *)
(*   - the flow analyses of NLdigital and NLConnect,                       *)
(*   - the cross-organisation matcher.                                     *)
(* Strings are sequences of one-character strings, so that the regular     *)
(* expressions of the scripts are computed character by character.         *)
(***************************************************************************)
EXTENDS Integers, Sequences, FiniteSets, TLC

VARIABLES
    \* ---- slug normaliser run (one call chain on one input string)
    slugPc,         \* "start" | "once" | "twice" | "variants" | "idle"
    slugIn,         \* the raw input string
    slugOut1,       \* slugify(slugIn)
    slugOut2,       \* slugify(slugify(slugIn))
    bvSlugs,        \* slug of slugIn followed by each spelling of the legal suffix
    \* ---- flow analysis run (analyze_member_flow.py / analyze_nlconnect_flow.py)
    org,            \* "nldigital" | "nlconnect" | "none": which script runs
    flowPc,         \* "load" | "flow" | "save" | "done" | "idle"
    data,           \* json.load of the members_*.json file read last
    nFiles,         \* number of members_*.json files in data_dir
    member_snapshots, \* list of {date, members, count}
    sankey_data,    \* list of flow records built by the flow loop
    flow_file,      \* member_flows.json as written (<<>> before the write)
    \* ---- cross-organisation matcher run (analyze_cross_org_flows.py)
    crossPc,        \* "digital" | "connect" | "exact" | "current" | "fuzzy" | "dual" |
                    \* "done" | "IndexError" | "idle"
    flow_idx,       \* records the running `for flow in ...` loop has read so far
    nldigital_departed, nldigital_joined,
    nlconnect_departed, nlconnect_joined,
    digital_left_connect_joined, connect_left_digital_joined,
    norm_lookup,    \* the four {normalize_slug(c): c} dictionaries
    fuzzy_d2c, fuzzy_c2d,
    cross_flows,    \* list of fuzzy directional matches
    nldigital_current_slugs, nlconnect_current, overlap,
    dual_members,   \* list of fuzzy matches between the current members
    results,        \* content of cross_org_flows.json

    \* ---- a run of a script that fetches over the network (fetch_members.py,
    \* fetch_nlconnect_members.py, fetch_company_logos_live.py,
    \* check_microsoft_partners.py)
    fetchScript,    \* which script runs
    fetchPc,        \* "loop" | "save" | "done" | "idle"
    nItems,         \* rows of the sheet / len(URLS) / len(all_members) / len(members)
    item_idx,       \* items the loop has gone through
    net_log,        \* the network calls and sleeps of the run, in order
    written_files,  \* items whose members_<date>.json was written
    fetched,        \* all_members_data / all_snapshots / logos / results
    failed,         \* failed (logo fetcher)
    output_file,     \* summary.json / logos_fetched.json / microsoft_partners.json

    \* ---- the file names of two snapshots a fetcher writes
    namePc,         \* "dated" | "named" | "idle"
    ts_a, ts_b,     \* the moments of the two snapshots
    date_a, date_b, \* their dates, 'YYYY-MM-DD HH:MM:SS'
    file_a, file_b,  \* the names of their files

    \* ---- the flow lists of the matcher (analyze_cross_org_flows.py, line 35-36)
    flows_loaded,   \* TRUE: the two lists are given from the start;
                    \* FALSE: their records show as the loops read them
    nldigital_flows, nlconnect_flows,

    \* ---- the two normalisations applied to a pair of identifiers
    normPc,         \* "start" | "once" | "twice" | "idle"
    norm_a, norm_b, \* the two identifiers
    slug_a, slug_b, \* slugify of each
    key_a, key_b,   \* normalize_slug of each
    key_aa,          \* normalize_slug of key_a

    \* ---- a run of a Sankey builder (create_sankey_diagram.py /
    \* create_nlconnect_sankey.py)
    sankeyScript,   \* which builder runs
    sankeyPc,       \* "filter" | "entries" | "written" | "KeyError" | "idle"
    flows_json,     \* flows: json.load of member_flows.json
    active_flows,   \* the records that pass the filter
    active_idx,     \* records of active_flows the loop has gone through
    sankey_entries, \* list of links {source, target, value, type}
    values,          \* df['value'].tolist() as handed to the figure

    \* ---- the URL-to-slug extractors of the four scripts applied to one URL
    extractPc,      \* "start" | "done" | "idle"
    member_url,     \* the member URL
    company_flow,   \* extract_company_name(url)      (analyze_member_flow.py)
    company_sankey, \* extract_company_from_url(url)  (create_sankey_diagram.py)
    company_cross,  \* slugify_nldigital(url)         (analyze_cross_org_flows.py)
    company_partner, \* slugify_url(url)               (check_microsoft_partners.py)

    \* ---- a flow analysis followed by the Sankey builder of the same
    \* organisation, on two snapshot files
    labelOrg,       \* "nldigital" | "nlconnect" | "none"
    labelPc,        \* "analyze" | "count" | "label" | "labelled" | "filtered" | "idle"
    snapshot_files, \* content of the members_*.json files, in file-name order
    label_flow,     \* the record of member_flows.json for the two snapshots
    member_counts,  \* the Sankey builder's {date: count}
    from_count, to_count, \* the counts printed in the labels of the two nodes

    \* ---- the snapshot loading loop of analyze_member_flow.py on one URL
    addPc,          \* "start" | "done" | "idle"
    raw_name,       \* what the URL holds behind /leden/
    name_slug,      \* slugify(raw_name)
    names_added,     \* company_names after the loop body ran on the URL

    \* ---- the counter of the logo fetcher (fetch_company_logos_live.py)
    success_count   \* logos found so far

slugVars  == <<slugPc, slugIn, slugOut1, slugOut2, bvSlugs>>
flowVars  == <<org, flowPc, data, nFiles, member_snapshots, sankey_data, flow_file>>
crossVars == <<crossPc, flow_idx,
               nldigital_departed, nldigital_joined, nlconnect_departed,
               nlconnect_joined, digital_left_connect_joined,
               connect_left_digital_joined, norm_lookup, fuzzy_d2c, fuzzy_c2d,
               cross_flows, nldigital_current_slugs, nlconnect_current, overlap,
               dual_members, results>>
fetchVars == <<fetchScript, fetchPc, nItems, item_idx, net_log, written_files,
               fetched, failed, output_file>>
nameVars == <<namePc, ts_a, ts_b, date_a, date_b, file_a, file_b>>
loadedVars == <<flows_loaded, nldigital_flows, nlconnect_flows>>
normVars == <<normPc, norm_a, norm_b, slug_a, slug_b, key_a, key_b, key_aa>>
sankeyVars == <<sankeyScript, sankeyPc, flows_json, active_flows, active_idx, sankey_entries, values>>
extractVars == <<extractPc, member_url, company_flow, company_sankey, company_cross, company_partner>>
labelVars == <<labelOrg, labelPc, snapshot_files, label_flow, member_counts, from_count, to_count>>
addVars == <<addPc, raw_name, name_slug, names_added>>
countVars == <<success_count>>
vars == <<slugVars, flowVars, crossVars, fetchVars, nameVars, loadedVars, normVars, sankeyVars, extractVars, labelVars, addVars, countVars>>

\* the variables outside each part of the model
outsideSlug  == <<flowVars, crossVars, fetchVars, nameVars, loadedVars, normVars, sankeyVars, extractVars, labelVars, addVars, countVars>>
outsideFlow  == <<slugVars, crossVars, fetchVars, nameVars, loadedVars, normVars, sankeyVars, extractVars, labelVars, addVars, countVars>>
outsideCross == <<slugVars, flowVars, fetchVars, nameVars, loadedVars, normVars, sankeyVars, extractVars, labelVars, addVars, countVars>>
outsideFetch == <<slugVars, flowVars, crossVars, nameVars, loadedVars, normVars, sankeyVars, extractVars, labelVars, addVars, countVars>>
outsideName == <<slugVars, flowVars, crossVars, fetchVars, loadedVars, normVars, sankeyVars, extractVars, labelVars, addVars, countVars>>
outsideLoaded == <<slugVars, flowVars, crossVars, fetchVars, nameVars, normVars, sankeyVars, extractVars, labelVars, addVars, countVars>>
outsideNorm == <<slugVars, flowVars, crossVars, fetchVars, nameVars, loadedVars, sankeyVars, extractVars, labelVars, addVars, countVars>>
outsideSankey == <<slugVars, flowVars, crossVars, fetchVars, nameVars, loadedVars, normVars, extractVars, labelVars, addVars, countVars>>
outsideExtract == <<slugVars, flowVars, crossVars, fetchVars, nameVars, loadedVars, normVars, sankeyVars, labelVars, addVars, countVars>>
outsideLabel == <<slugVars, flowVars, crossVars, fetchVars, nameVars, loadedVars, normVars, sankeyVars, extractVars, addVars, countVars>>
outsideAdd == <<slugVars, flowVars, crossVars, fetchVars, nameVars, loadedVars, normVars, sankeyVars, extractVars, labelVars, countVars>>
outsideCount == <<slugVars, flowVars, crossVars, fetchVars, nameVars, loadedVars, normVars, sankeyVars, extractVars, labelVars, addVars>>
outsideLogoLoop == <<slugVars, flowVars, crossVars, nameVars, loadedVars, normVars, sankeyVars, extractVars, labelVars, addVars>>

-----------------------------------------------------------------------------
(* Characters and Python's str / re primitives                             *)

LowerSeq == <<"a","b","c","d","e","f","g","h","i","j","k","l","m",
              "n","o","p","q","r","s","t","u","v","w","x","y","z">>
UpperSeq == <<"A","B","C","D","E","F","G","H","I","J","K","L","M",
              "N","O","P","Q","R","S","T","U","V","W","X","Y","Z">>
LowerLetters == {LowerSeq[i] : i \in DOMAIN LowerSeq}
UpperLetters == {UpperSeq[i] : i \in DOMAIN UpperSeq}
Digits == {"0","1","2","3","4","5","6","7","8","9"}

\* str.lower() on one character
ToLower(c) ==
    IF c \in UpperLetters
    THEN LowerSeq[CHOOSE i \in DOMAIN UpperSeq : UpperSeq[i] = c]
    ELSE c

\* the class [a-z0-9] of the regular expressions
IsAlnum(c) == c \in LowerLetters \cup Digits

\* the class \w that decides \b: letters, digits and the underscore
IsWord(c) == c \in LowerLetters \cup UpperLetters \cup Digits \cup {"_"}

\* the class \s, and what str.strip() without argument removes
Whitespace == {" "}

Lower(s) == [i \in 1..Len(s) |-> ToLower(s[i])]

RECURSIVE LStrip(_, _)
LStrip(s, C) == IF s # <<>> /\ Head(s) \in C THEN LStrip(Tail(s), C) ELSE s

RECURSIVE RStrip(_, _)
RStrip(s, C) ==
    IF s # <<>> /\ s[Len(s)] \in C THEN RStrip(SubSeq(s, 1, Len(s) - 1), C) ELSE s

\* str.strip(chars)
Strip(s, C) == RStrip(LStrip(s, C), C)

\* str.startswith / str.endswith
StartsWith(s, p) == Len(s) >= Len(p) /\ SubSeq(s, 1, Len(p)) = p
EndsWith(s, p) == Len(s) >= Len(p) /\ SubSeq(s, Len(s) - Len(p) + 1, Len(s)) = p

\* p occurs in s at position i
OccursAt(s, p, i) == i + Len(p) - 1 <= Len(s) /\ SubSeq(s, i, i + Len(p) - 1) = p

\* the `in` operator on strings
Contains(s, p) == \E i \in 1..(Len(s) + 1) : OccursAt(s, p, i)

\* \b at the gap before position i (1 <= i <= Len(s)+1)
WordBoundary(s, i) ==
    LET before == i > 1 /\ IsWord(s[i - 1])
        after  == i <= Len(s) /\ IsWord(s[i])
    IN  before # after

-----------------------------------------------------------------------------
(* slugify                                                                 *)

LOGO_PREFIX == <<"l","o","g","o","-">>
EXT_JPG  == <<".","j","p","g">>
EXT_JPEG == <<".","j","p","e","g">>
EXT_PNG  == <<".","p","n","g">>
EXT_GIF  == <<".","g","i","f">>
Extensions == {EXT_JPG, EXT_JPEG, EXT_PNG, EXT_GIF}

\* re.sub(r"\.(jpg|jpeg|png|gif)$", '', s)
SubExtension(s) ==
    IF \E e \in Extensions : EndsWith(s, e)
    THEN LET e == CHOOSE e \in Extensions : EndsWith(s, e)
         IN  SubSeq(s, 1, Len(s) - Len(e))
    ELSE s

\* length of the match of \bb[\.\-\s]?v\b at position i, 0 when there is none;
\* the optional separator is tried first (greedy ?)
BvMatchLen(s, i) ==
    IF ~(i <= Len(s) /\ s[i] = "b" /\ WordBoundary(s, i)) THEN 0
    ELSE IF /\ i + 2 <= Len(s)
            /\ s[i + 1] \in {".", "-"} \cup Whitespace
            /\ s[i + 2] = "v"
            /\ WordBoundary(s, i + 3) THEN 3
    ELSE IF /\ i + 1 <= Len(s)
            /\ s[i + 1] = "v"
            /\ WordBoundary(s, i + 2) THEN 2
    ELSE 0

\* re.sub(r"\bb[\.\-\s]?v\b", 'bv', s): leftmost non-overlapping matches
RECURSIVE SubBvFrom(_, _)
SubBvFrom(s, i) ==
    IF i > Len(s) THEN <<>>
    ELSE LET n == BvMatchLen(s, i)
         IN  IF n > 0 THEN <<"b", "v">> \o SubBvFrom(s, i + n)
             ELSE <<s[i]>> \o SubBvFrom(s, i + 1)

SubBv(s) == SubBvFrom(s, 1)

\* re.sub(r'[^a-z0-9]+', '-', s)
RECURSIVE SubNonAlnumFrom(_, _)
SubNonAlnumFrom(s, i) ==
    IF i > Len(s) THEN <<>>
    ELSE IF IsAlnum(s[i]) THEN <<s[i]>> \o SubNonAlnumFrom(s, i + 1)
    ELSE IF i > 1 /\ ~IsAlnum(s[i - 1]) THEN SubNonAlnumFrom(s, i + 1)
    ELSE <<"-">> \o SubNonAlnumFrom(s, i + 1)

SubNonAlnum(s) == SubNonAlnumFrom(s, 1)

\* re.sub(r'-{2,}', '-', s)
RECURSIVE SubHyphensFrom(_, _)
SubHyphensFrom(s, i) ==
    IF i > Len(s) THEN <<>>
    ELSE IF s[i] = "-" /\ i > 1 /\ s[i - 1] = "-" THEN SubHyphensFrom(s, i + 1)
    ELSE <<s[i]>> \o SubHyphensFrom(s, i + 1)

SubHyphens(s) == SubHyphensFrom(s, 1)

\* s[len('logo-'):] when s starts with 'logo-'
DropLogoPrefix(s) ==
    IF StartsWith(s, LOGO_PREFIX) THEN SubSeq(s, Len(LOGO_PREFIX) + 1, Len(s)) ELSE s

slugify(name) ==
    LET s0 == Strip(Lower(Strip(name, Whitespace)), {"/"})
        s1 == DropLogoPrefix(s0)
        s2 == SubExtension(s1)
        s3 == SubBv(s2)
        s4 == SubNonAlnum(s3)
        s5 == SubHyphens(s4)
    IN  Strip(s5, {"-"})

-----------------------------------------------------------------------------
(* URL-to-slug extractors and the cross-organisation normalisation         *)

\* Python's None; no string is equal to it
None == <<"None">>

LEDEN == <<"/","l","e","d","e","n","/">>
WP_CONTENT == <<"w","p","-","c","o","n","t","e","n","t">>
LOGO == <<"l","o","g","o">>

\* index of the first occurrence of p in s (p occurs in s)
FirstIndex(s, p) ==
    CHOOSE i \in 1..(Len(s) + 1) :
        OccursAt(s, p, i) /\ \A j \in 1..(i - 1) : ~OccursAt(s, p, j)

\* s.split(p)[1] for an s that contains p
SplitSecond(s, p) ==
    LET rest == SubSeq(s, FirstIndex(s, p) + Len(p), Len(s))
    IN  IF Contains(rest, p) THEN SubSeq(rest, 1, FirstIndex(rest, p) - 1) ELSE rest

extract_company_name(url) ==
    LET u == Strip(url, Whitespace)
    IN  IF Contains(u, LEDEN) /\ ~EndsWith(u, EXT_JPG) /\ ~EndsWith(u, EXT_PNG)
        THEN LET company_slug == Strip(Strip(SplitSecond(u, LEDEN), {"/"}), Whitespace)
             IN  IF ~StartsWith(company_slug, WP_CONTENT)
                 THEN slugify(company_slug)
                 ELSE None
        ELSE None

slugify_nldigital(url) ==
    IF Contains(url, LEDEN) /\ ~Contains(Lower(url), LOGO)
    THEN LET s == Lower(Strip(Strip(SplitSecond(url, LEDEN), {"/"}), Whitespace))
         IN  IF ~StartsWith(s, WP_CONTENT)
             THEN Strip(SubHyphens(SubNonAlnum(SubBv(s))), {"-"})
             ELSE None
    ELSE None

\* re.sub(r'\bw\b', '', s) for a word w of letters
RECURSIVE RemoveWordFrom(_, _, _)
RemoveWordFrom(s, w, i) ==
    IF i > Len(s) THEN <<>>
    ELSE IF OccursAt(s, w, i) /\ WordBoundary(s, i) /\ WordBoundary(s, i + Len(w))
         THEN RemoveWordFrom(s, w, i + Len(w))
         ELSE <<s[i]>> \o RemoveWordFrom(s, w, i + 1)

\* re.sub(r'[^a-z0-9]', '', s)
DropNonAlnum(s) == SelectSeq(s, IsAlnum)

normalize_slug(s) ==
    LET s0 == Strip(Strip(Lower(s), {"-"}), {"/"})
        s1 == RemoveWordFrom(s0, <<"b", "v">>, 1)
        s2 == RemoveWordFrom(s1, <<"n", "l">>, 1)
    IN  DropNonAlnum(s2)

-----------------------------------------------------------------------------
(* sorted(list(S)) on strings: Python compares strings by code point       *)

\* the characters of the model in code-point order
CharOrder == <<" ", "-", ".", "/">> \o
             <<"0","1","2","3","4","5","6","7","8","9">> \o <<":">> \o
             UpperSeq \o <<"_">> \o LowerSeq

CharRank(c) == CHOOSE i \in DOMAIN CharOrder : CharOrder[i] = c

\* s < t for two strings
RECURSIVE StrLess(_, _)
StrLess(s, t) ==
    IF t = <<>> THEN FALSE
    ELSE IF s = <<>> THEN TRUE
    ELSE IF Head(s) = Head(t) THEN StrLess(Tail(s), Tail(t))
    ELSE CharRank(Head(s)) < CharRank(Head(t))

\* sorted(list(S)) for a set S of strings
RECURSIVE SortedList(_)
SortedList(S) ==
    IF S = {} THEN <<>>
    ELSE LET m == CHOOSE x \in S : \A y \in S \ {x} : StrLess(x, y)
         IN  <<m>> \o SortedList(S \ {m})

\* set(list)
ToSet(l) == {l[i] : i \in DOMAIN l}

-----------------------------------------------------------------------------
(* Flow analysis: analyze_member_flow.py (NLdigital, member URLs) and      *)
(* analyze_nlconnect_flow.py (NLConnect, member slugs)                     *)

MaxSnapshots == 3   \* most members_*.json files in a data directory
MaxMembers == 2     \* most entries of a file's "members" list

HTTPS_X == <<"h","t","t","p","s",":","/","/","x">>

\* the spellings of the Dutch legal-entity suffix: b v, b-v, b.v, b.v., bv
BvSpellings == << <<"b"," ","v">>, <<"b","-","v">>, <<"b",".","v">>,
                  <<"b",".","v",".">>, <<"b","v">> >>

\* the profile URL of the company whose name is stem followed by a spelling
MemberUrl(stem, k) == HTTPS_X \o LEDEN \o stem \o BvSpellings[k] \o <<"/">>

\* company-name stems of the member URLs: "ac-" and "zq_"
UrlStems == {<<"a","c","-">>, <<"z","q","_">>}

URL_LOGO_GIF == HTTPS_X \o LEDEN \o <<"l","o","g","o","-","a","c","-","b","v">> \o EXT_GIF
URL_LOGO_PNG == HTTPS_X \o <<"/">> \o WP_CONTENT \o <<"/","z","z">> \o EXT_PNG
URL_WP_LEDEN == HTTPS_X \o LEDEN \o WP_CONTENT \o <<"/","z","z">>

\* member URLs that occur in the NLdigital members_*.json files: ac-bv, ac-b-v,
\* zq_bv, zq_b-v under /leden/, and three URLs that are no member profile
UrlPool == {MemberUrl(stem, k) : stem \in UrlStems, k \in {2, 5}} \cup
           {URL_LOGO_GIF, URL_LOGO_PNG, URL_WP_LEDEN}

\* member slugs that occur in the NLConnect members_*.json files
ConnectSlugPool == {<<"a","c">>, <<"a","c","-","n","l">>, <<"z","z">>}

\* lists of at most n entries drawn from S
ListsUpTo(S, n) == UNION {[1..k -> S] : k \in 0..n}

MemberPool(o) == IF o = "nldigital" THEN UrlPool ELSE ConnectSlugPool

\* the "members" lists a file may hold: at most MaxMembers distinct entries of
\* the pool. fetch_nlconnect_members.py writes sorted(set); the analyses only
\* iterate over the list and build a set, so its order plays no part
MemberLists(o) ==
    {SortedList(S) : S \in {T \in SUBSET MemberPool(o) : Cardinality(T) <= MaxMembers}}

\* the "date" of the i-th file in sorted file-name order: the file name carries
\* the date, so the dates increase along the list; dates are abstract timestamps
FileDate(i) == i

\* slip of the loading loop: `if company_name is not None`
CompanyNamesKeepEmpty(members) ==
    {extract_company_name(members[i]) : i \in DOMAIN members} \ {None}

\* the loop body of lines 70-74: the set of company names of a member list
CompanyNames(members) ==
    {extract_company_name(members[i]) : i \in DOMAIN members} \ {None, <<>>}

\* the snapshot appended for a file (member_snapshots.append / snapshots.append);
\* the fields raw_urls and duplicates_removed of the NLdigital snapshot are read
\* by the statistics print alone and are left out
NldigitalSnapshot(file) ==
    LET company_names == CompanyNames(file.members)
    IN  [date |-> file.date,
         members |-> company_names,
         count |-> Cardinality(company_names)]

NlconnectSnapshot(file) ==
    [date |-> file.date,
     members |-> ToSet(file.members),
     count |-> Len(file.members)]

Snapshot(o, file) ==
    IF o = "nldigital" THEN NldigitalSnapshot(file) ELSE NlconnectSnapshot(file)

\* slips of the flow loop: the operands of a difference swapped, and a
\* difference left out
LeftSwapped(current_members, next_members) == next_members \ current_members
JoinedNotSubtracted(current_members, next_members) == next_members

\* the three set expressions of the flow loop
Stayed(current_members, next_members) == current_members \cap next_members
Joined(current_members, next_members) == next_members \ current_members
Left(current_members, next_members) == current_members \ next_members

\* slip of the flow loop: the 'left' count taken from the joined set
FlowRecordLeftCount(current, next_snap) ==
    LET stayed == Stayed(current.members, next_snap.members)
        joined == Joined(current.members, next_snap.members)
        left   == Left(current.members, next_snap.members)
    IN  [from_date |-> current.date,
         to_date |-> next_snap.date,
         stayed |-> Cardinality(stayed),
         joined |-> Cardinality(joined),
         left |-> Cardinality(joined),
         stayed_members |-> SortedList(stayed),
         joined_members |-> SortedList(joined),
         left_members |-> SortedList(left)]

\* list(S) for a set S of strings, in an order that is not the sorted one
RECURSIVE UnsortedList(_)
UnsortedList(S) ==
    IF S = {} THEN <<>>
    ELSE LET m == CHOOSE x \in S : \A y \in S \ {x} : StrLess(y, x)
         IN  <<m>> \o UnsortedList(S \ {m})

\* slip of the flow loop: the member lists written without sorted()
FlowRecordUnsorted(current, next_snap) ==
    LET stayed == Stayed(current.members, next_snap.members)
        joined == Joined(current.members, next_snap.members)
        left   == Left(current.members, next_snap.members)
    IN  [from_date |-> current.date,
         to_date |-> next_snap.date,
         stayed |-> Cardinality(stayed),
         joined |-> Cardinality(joined),
         left |-> Cardinality(left),
         stayed_members |-> UnsortedList(stayed),
         joined_members |-> UnsortedList(joined),
         left_members |-> UnsortedList(left)]

\* the record appended by the flow loop for the pair (current, next_snap)
FlowRecord(current, next_snap) ==
    LET stayed == Stayed(current.members, next_snap.members)
        joined == Joined(current.members, next_snap.members)
        left   == Left(current.members, next_snap.members)
    IN  [from_date |-> current.date,
         to_date |-> next_snap.date,
         stayed |-> Cardinality(stayed),
         joined |-> Cardinality(joined),
         left |-> Cardinality(left),
         stayed_members |-> SortedList(stayed),
         joined_members |-> SortedList(joined),
         left_members |-> SortedList(left)]

\* slip of the flow loop: range(len(member_snapshots) - 2)
FlowLoopLenShort(n) == IF n > 2 THEN n - 2 ELSE 0

\* range(len(member_snapshots) - 1): the number of iterations of the flow loop
FlowLoopLen(n) == IF n > 1 THEN n - 1 ELSE 0

NotWritten == <<"not written">>

FlowInit ==
    /\ org \in {"nldigital", "nlconnect"}
    /\ nFiles \in 0..MaxSnapshots
    /\ flowPc = IF nFiles = 0 THEN "flow" ELSE "load"
    /\ data = [date |-> 0, members |-> <<>>]
    /\ member_snapshots = <<>>
    /\ sankey_data = <<>>
    /\ flow_file = NotWritten

\* one iteration of the loading loop: read the next file, append its snapshot
LoadSnapshot ==
    /\ flowPc = "load"
    /\ Len(member_snapshots) < nFiles
    /\ \E members \in MemberLists(org) :
         /\ data' = [date |-> FileDate(Len(member_snapshots) + 1), members |-> members]
         /\ member_snapshots' = Append(member_snapshots, Snapshot(org, data'))
    /\ flowPc' = IF Len(member_snapshots) + 1 = nFiles THEN "flow" ELSE "load"
    /\ UNCHANGED <<org, nFiles, sankey_data, flow_file, outsideFlow>>

\* one iteration of the flow loop: compare snapshot i with snapshot i+1
ComputeFlow ==
    /\ flowPc = "flow"
    /\ Len(sankey_data) < FlowLoopLen(Len(member_snapshots))
    /\ LET i == Len(sankey_data) + 1
       IN  sankey_data' = Append(sankey_data,
                FlowRecord(member_snapshots[i], member_snapshots[i + 1]))
    /\ UNCHANGED <<org, nFiles, data, member_snapshots, flow_file, flowPc,
                   outsideFlow>>

\* json.dump(sankey_data) to member_flows.json after the flow loop
SaveFlows ==
    /\ flowPc = "flow"
    /\ Len(sankey_data) >= FlowLoopLen(Len(member_snapshots))
    /\ flow_file' = sankey_data
    /\ flowPc' = "done"
    /\ UNCHANGED <<org, nFiles, data, member_snapshots, sankey_data,
                   outsideFlow>>

FlowNext == LoadSnapshot \/ ComputeFlow \/ SaveFlows

\* no flow analysis runs
FlowIdle ==
    /\ org = "none"
    /\ nFiles = 0
    /\ flowPc = "idle"
    /\ data = [date |-> 0, members |-> <<>>]
    /\ member_snapshots = <<>>
    /\ sankey_data = <<>>
    /\ flow_file = NotWritten

-----------------------------------------------------------------------------
(* The slug normaliser applied to one input string                         *)

MaxPieces == 3      \* most pieces an input string is put together from

SlugPieces == {<<"a">>, <<"b">>, <<"v">>, <<"n","l">>, <<"-">>, <<".">>, <<" ">>,
               <<"_">>, <<"/">>, LOGO_PREFIX, EXT_JPG}

RECURSIVE Flatten(_)
Flatten(ps) == IF ps = <<>> THEN <<>> ELSE Head(ps) \o Flatten(Tail(ps))

SlugInputs == {Flatten(ps) : ps \in ListsUpTo(SlugPieces, MaxPieces)}

SlugInit ==
    /\ slugPc = "start"
    /\ slugIn \in SlugInputs
    /\ slugOut1 = None
    /\ slugOut2 = None
    /\ bvSlugs = <<>>

\* slugify(x)
SlugifyOnce ==
    /\ slugPc = "start"
    /\ slugOut1' = slugify(slugIn)
    /\ slugPc' = "once"
    /\ UNCHANGED <<slugIn, slugOut2, bvSlugs, outsideSlug>>

\* slugify applied to a slug that slugify returned
SlugifyAgain ==
    /\ slugPc = "once"
    /\ slugOut2' = slugify(slugOut1)
    /\ slugPc' = "twice"
    /\ UNCHANGED <<slugIn, slugOut1, bvSlugs, outsideSlug>>

\* slugify applied to the input followed by each spelling of the suffix
SlugifyBvSpellings ==
    /\ slugPc = "twice"
    /\ bvSlugs' = [k \in DOMAIN BvSpellings |-> slugify(slugIn \o BvSpellings[k])]
    /\ slugPc' = "done"
    /\ UNCHANGED <<slugIn, slugOut1, slugOut2, outsideSlug>>

SlugNext == SlugifyOnce \/ SlugifyAgain \/ SlugifyBvSpellings

\* no slug run
SlugIdle ==
    /\ slugPc = "idle"
    /\ slugIn = <<>>
    /\ slugOut1 = None
    /\ slugOut2 = None
    /\ bvSlugs = <<>>

-----------------------------------------------------------------------------
(* Cross-organisation matcher: analyze_cross_org_flows.py                  *)

MaxFlows == 2        \* most records of a member_flows.json file

\* slugs that occur in the flow files of both organisations
CrossSlugPool ==
    {<<"a","c">>, <<"a","c","-","b","v">>, <<"a","c","-","n","l">>, <<"b","v">>}

\* the records a member_flows.json file may hold, as far as the matcher reads
\* them. One record carries one change here (one member left or one joined, or
\* none): the matcher only unites the lists of all records, so a record with
\* several changes acts like several records with one change each
FlowFileRecords ==
    {[left_members |-> <<>>, joined_members |-> <<>>]}
    \cup {[left_members |-> <<s>>, joined_members |-> <<>>] : s \in CrossSlugPool}
    \cup {[left_members |-> <<>>, joined_members |-> <<s>>] : s \in CrossSlugPool}

\* the "members" lists the latest NLdigital snapshot may hold: member URLs
DigitalCurrentLists == {<<>>, <<MemberUrl(<<"a","c","-">>, 3)>>}

\* the "members" lists the latest NLConnect snapshot may hold: slugs
ConnectCurrentLists ==
    {<<>>, <<<<"a","c","-","b","v">>, <<"a","c","-","n","l">>>>}

\* the keys of the dictionary {normalize_slug(c): c for c in S}
NormKeys(S) == {normalize_slug(c) : c \in S}

\* the dictionaries {normalize_slug(c): c for c in S} may be: of the slugs that
\* share a key the one iterated last stays, and the iteration order of a set of
\* strings changes from run to run (hash randomisation)
NormDicts(S) ==
    {f \in [NormKeys(S) -> S] : \A k \in NormKeys(S) : normalize_slug(f[k]) = k}

\* slip of the exact match: the intersection left out
ExactMatchNoIntersection(departed, joined) == departed

\* nldigital_departed & nlconnect_joined, nlconnect_departed & nldigital_joined
ExactMatch(departed, joined) == departed \cap joined

\* slip of the fuzzy match: the kept slugs compared instead of their keys
FuzzyKeysOfEqualSlugs(departed_norm, joined_norm) ==
    {k \in (DOMAIN departed_norm) \cap (DOMAIN joined_norm) :
        departed_norm[k] = joined_norm[k]}

\* set(departed_norm.keys()) & set(joined_norm.keys())
FuzzyKeys(departed_norm, joined_norm) == (DOMAIN departed_norm) \cap (DOMAIN joined_norm)

\* slip of the first fuzzy loop: the two kept slugs in each other's place
DigitalToConnectEntriesSwapped(keys, departed_norm, joined_norm) ==
    LET order == SortedList(keys)
    IN  [i \in 1..Len(order) |->
            [from_org |-> "NLdigital",
             to_org |-> "NLConnect",
             nldigital_slug |-> joined_norm[order[i]],
             nlconnect_slug |-> departed_norm[order[i]],
             direction |-> "digital_to_connect"]]

\* the cross_flows entries appended by the loop over sorted(fuzzy_d2c)
DigitalToConnectEntries(keys, departed_norm, joined_norm) ==
    LET order == SortedList(keys)
    IN  [i \in 1..Len(order) |->
            [from_org |-> "NLdigital",
             to_org |-> "NLConnect",
             nldigital_slug |-> departed_norm[order[i]],
             nlconnect_slug |-> joined_norm[order[i]],
             direction |-> "digital_to_connect"]]

\* the cross_flows entries appended by the loop over sorted(fuzzy_c2d)
ConnectToDigitalEntries(keys, departed_norm, joined_norm) ==
    LET order == SortedList(keys)
    IN  [i \in 1..Len(order) |->
            [from_org |-> "NLConnect",
             to_org |-> "NLdigital",
             nlconnect_slug |-> departed_norm[order[i]],
             nldigital_slug |-> joined_norm[order[i]],
             direction |-> "connect_to_digital"]]

\* slugs of the flow lists that are given from the start
LoadedSlugPool == {<<"a","c">>, <<"b","v">>}

\* the records of the flow lists that are given from the start: no change, a
\* departure, an arrival, a departure together with an arrival
LoadedRecords ==
    {[left_members |-> <<>>, joined_members |-> <<>>],
     [left_members |-> <<<<"a","c">>>>, joined_members |-> <<>>],
     [left_members |-> <<<<"b","v">>>>, joined_members |-> <<>>],
     [left_members |-> <<>>, joined_members |-> <<<<"a","c">>>>],
     [left_members |-> <<<<"a","c">>>>, joined_members |-> <<<<"b","v">>>>]}

\* The flow lists are either given from the start or their records and their
\* lengths show as the loops run: a loop that has read i records either reads
\* another one or finds its list exhausted; a list holds at most MaxFlows
\* records.
\* the records the loop over list l may read after i records
NextRecords(l, i) == IF flows_loaded THEN {l[i + 1]} ELSE FlowFileRecords

\* the loop over list l may go on after i records
MoreRecords(l, i) == IF flows_loaded THEN {i < Len(l)} ELSE {b \in BOOLEAN : b => i < MaxFlows}

\* what may follow the i-th record of nldigital_flows
AfterDigital(i) ==
    {IF more THEN "digital" ELSE next :
        more \in MoreRecords(nldigital_flows, i),
        next \in IF flows_loaded
                 THEN {IF Len(nlconnect_flows) > 0 THEN "connect" ELSE "exact"}
                 ELSE {"connect", "exact"}}

\* what may follow the i-th record of nlconnect_flows
AfterConnect(i) ==
    {IF more THEN "connect" ELSE "exact" : more \in MoreRecords(nlconnect_flows, i)}

\* slip of the union loops: the set assigned instead of updated
SetReplacedBy(s, members) == ToSet(members)

\* set.update(list)
SetUpdate(s, members) == s \cup ToSet(members)

\* what every step of the matcher leaves alone
UnionVars == <<nldigital_departed, nldigital_joined, nlconnect_departed, nlconnect_joined>>
ExactVars == <<digital_left_connect_joined, connect_left_digital_joined>>
CurrentVars == <<nldigital_current_slugs, nlconnect_current, overlap>>
FuzzyVars == <<norm_lookup, fuzzy_d2c, fuzzy_c2d, cross_flows>>

CrossInit ==
    /\ flows_loaded = FALSE
    /\ nldigital_flows = <<>>
    /\ nlconnect_flows = <<>>
    /\ crossPc \in AfterDigital(0)
    /\ flow_idx = 0
    /\ nldigital_departed = {}
    /\ nldigital_joined = {}
    /\ nlconnect_departed = {}
    /\ nlconnect_joined = {}
    /\ digital_left_connect_joined = {}
    /\ connect_left_digital_joined = {}
    /\ norm_lookup = <<>>
    /\ fuzzy_d2c = {}
    /\ fuzzy_c2d = {}
    /\ cross_flows = <<>>
    /\ nldigital_current_slugs = {}
    /\ nlconnect_current = {}
    /\ overlap = {}
    /\ dual_members = <<>>
    /\ results = NotWritten

\* one iteration of `for flow in nldigital_flows`
CollectDigital ==
    /\ crossPc = "digital"
    /\ flow_idx < MaxFlows
    /\ \E flow \in NextRecords(nldigital_flows, flow_idx) :
         /\ nldigital_departed' = SetUpdate(nldigital_departed, flow.left_members)
         /\ nldigital_joined' = SetUpdate(nldigital_joined, flow.joined_members)
    /\ crossPc' \in AfterDigital(flow_idx + 1)
    /\ flow_idx' = IF crossPc' = "digital" THEN flow_idx + 1 ELSE 0
    /\ UNCHANGED <<nlconnect_departed, nlconnect_joined, ExactVars,
                   CurrentVars, FuzzyVars, dual_members, results, outsideCross>>

\* one iteration of `for flow in nlconnect_flows`
CollectConnect ==
    /\ crossPc = "connect"
    /\ flow_idx < MaxFlows
    /\ \E flow \in NextRecords(nlconnect_flows, flow_idx) :
         /\ nlconnect_departed' = SetUpdate(nlconnect_departed, flow.left_members)
         /\ nlconnect_joined' = SetUpdate(nlconnect_joined, flow.joined_members)
    /\ crossPc' \in AfterConnect(flow_idx + 1)
    /\ flow_idx' = IF crossPc' = "connect" THEN flow_idx + 1 ELSE 0
    /\ UNCHANGED <<nldigital_departed, nldigital_joined, ExactVars,
                   CurrentVars, FuzzyVars, dual_members, results, outsideCross>>

\* the exact slug match of lines 57-58
ExactSlugMatch ==
    /\ crossPc = "exact"
    /\ digital_left_connect_joined' = ExactMatch(nldigital_departed, nlconnect_joined)
    /\ connect_left_digital_joined' = ExactMatch(nlconnect_departed, nldigital_joined)
    /\ crossPc' = "current"
    /\ UNCHANGED <<flow_idx, UnionVars, CurrentVars, FuzzyVars,
                   dual_members, results, outsideCross>>

\* the slugs slugify_nldigital keeps of the latest snapshot's URLs (`if slug`
\* drops None and the empty slug)
CurrentSlugs(urls) ==
    {slugify_nldigital(urls[i]) : i \in 1..Len(urls)} \ {None, <<>>}

\* lines 61-93: the snapshots of both organisations are loaded and the current
\* members are those of the last snapshot; with no snapshot of an organisation
\* the index [-1] raises IndexError and the script ends there
LoadCurrentMembers ==
    /\ crossPc = "current"
    /\ \E digitalHasSnapshot \in BOOLEAN, connectHasSnapshot \in BOOLEAN :
         IF ~digitalHasSnapshot \/ ~connectHasSnapshot
         THEN /\ crossPc' = "IndexError"
              /\ UNCHANGED CurrentVars
         ELSE \E urls \in DigitalCurrentLists, members \in ConnectCurrentLists :
                /\ nldigital_current_slugs' = CurrentSlugs(urls)
                /\ nlconnect_current' = ToSet(members)
                /\ overlap' = nldigital_current_slugs' \cap nlconnect_current'
                /\ crossPc' = "fuzzy"
    /\ UNCHANGED <<flow_idx, UnionVars, ExactVars, FuzzyVars,
                   dual_members, results, outsideCross>>

\* the fuzzy match of lines 132-171: the four dictionaries, the two key
\* intersections and the cross_flows entries of both directions
FuzzyMatch ==
    /\ crossPc = "fuzzy"
    /\ \E dd \in NormDicts(nldigital_departed), cj \in NormDicts(nlconnect_joined),
          cd \in NormDicts(nlconnect_departed), dj \in NormDicts(nldigital_joined) :
         /\ norm_lookup' = [nldigital_departed_norm |-> dd,
                            nlconnect_joined_norm |-> cj,
                            nlconnect_departed_norm |-> cd,
                            nldigital_joined_norm |-> dj]
         /\ fuzzy_d2c' = FuzzyKeys(dd, cj)
         /\ fuzzy_c2d' = FuzzyKeys(cd, dj)
         /\ cross_flows' = DigitalToConnectEntries(fuzzy_d2c', dd, cj) \o
                           ConnectToDigitalEntries(fuzzy_c2d', cd, dj)
    /\ crossPc' = "dual"
    /\ UNCHANGED <<flow_idx, UnionVars, ExactVars, CurrentVars,
                   dual_members, results, outsideCross>>

\* the dual_members entries appended by the loop over sorted(fuzzy_overlap)
DualMemberEntries(keys, digital_norm, connect_norm) ==
    LET order == SortedList(keys)
    IN  [i \in 1..Len(order) |->
            [nldigital |-> digital_norm[order[i]],
             nlconnect |-> connect_norm[order[i]]]]

\* len([f for f in cross_flows if f['direction'] == direction])
CountDirection(flows, direction) ==
    Cardinality({i \in 1..Len(flows) : flows[i].direction = direction})

\* lines 173-206: the fuzzy overlap of the current members and the write of
\* cross_org_flows.json
DualMembersAndSave ==
    /\ crossPc = "dual"
    /\ \E dn \in NormDicts(nldigital_current_slugs), cn \in NormDicts(nlconnect_current) :
         dual_members' = DualMemberEntries(FuzzyKeys(dn, cn), dn, cn)
    /\ results' = [cross_flows |-> cross_flows,
                   dual_members |-> dual_members',
                   stats |-> [nldigital_departed |-> Cardinality(nldigital_departed),
                              nldigital_joined |-> Cardinality(nldigital_joined),
                              nlconnect_departed |-> Cardinality(nlconnect_departed),
                              nlconnect_joined |-> Cardinality(nlconnect_joined),
                              digital_to_connect |-> CountDirection(cross_flows, "digital_to_connect"),
                              connect_to_digital |-> CountDirection(cross_flows, "connect_to_digital"),
                              dual_members |-> Len(dual_members')]]
    /\ crossPc' = "done"
    /\ UNCHANGED <<flow_idx, UnionVars, ExactVars, CurrentVars,
                   FuzzyVars, outsideCross>>

CrossNext ==
    \/ CollectDigital
    \/ CollectConnect
    \/ ExactSlugMatch
    \/ LoadCurrentMembers
    \/ FuzzyMatch
    \/ DualMembersAndSave

\* the two flow lists given from the start of a matcher run
LoadedInit ==
    /\ flows_loaded = TRUE
    /\ nldigital_flows \in ListsUpTo(LoadedRecords, MaxFlows)
    /\ nlconnect_flows \in ListsUpTo(LoadedRecords, MaxFlows)
    /\ crossPc \in AfterDigital(0)
    /\ flow_idx = 0
    /\ nldigital_departed = {}
    /\ nldigital_joined = {}
    /\ nlconnect_departed = {}
    /\ nlconnect_joined = {}
    /\ digital_left_connect_joined = {}
    /\ connect_left_digital_joined = {}
    /\ norm_lookup = <<>>
    /\ fuzzy_d2c = {}
    /\ fuzzy_c2d = {}
    /\ cross_flows = <<>>
    /\ nldigital_current_slugs = {}
    /\ nlconnect_current = {}
    /\ overlap = {}
    /\ dual_members = <<>>
    /\ results = NotWritten

\* the two loops of lines 44-50
CollectNext == CollectDigital \/ CollectConnect

\* no matcher run
CrossIdle ==
    /\ flows_loaded = FALSE
    /\ nldigital_flows = <<>>
    /\ nlconnect_flows = <<>>
    /\ crossPc = "idle"
    /\ flow_idx = 0
    /\ nldigital_departed = {}
    /\ nldigital_joined = {}
    /\ nlconnect_departed = {}
    /\ nlconnect_joined = {}
    /\ digital_left_connect_joined = {}
    /\ connect_left_digital_joined = {}
    /\ norm_lookup = <<>>
    /\ fuzzy_d2c = {}
    /\ fuzzy_c2d = {}
    /\ cross_flows = <<>>
    /\ nldigital_current_slugs = {}
    /\ nlconnect_current = {}
    /\ overlap = {}
    /\ dual_members = <<>>
    /\ results = NotWritten

-----------------------------------------------------------------------------
\* The scripts that fetch over the network

MaxItems == 2   \* most items a fetch loop goes through

\* the logo fetcher sleeps before every 50th item
LOGO_SLEEP_EVERY == 50

FetchScripts ==
    {"fetch_members", "fetch_nlconnect_members", "fetch_company_logos_live",
     "check_microsoft_partners"}

\* the two scripts that write member snapshots
SnapshotFetchers == {"fetch_members", "fetch_nlconnect_members"}

\* what a GET may come to: status 200 and a body that parses, a status other
\* than 200, or an exception raised while fetching or parsing
FetchOutcomes == {"ok", "status", "exception"}

\* the entries of net_log: the GET for item i with what it came to, and a sleep
Get(i, outcome) == [op |-> "get", item |-> i, outcome |-> outcome]
Sleep == [op |-> "sleep", item |-> 0, outcome |-> "slept"]

\* slip of the fetch loops: a failed GET is issued a second time
RequestsWithRetry(i, outcome) ==
    IF outcome = "ok" THEN <<Get(i, outcome)>> ELSE <<Get(i, outcome), Get(i, outcome)>>

\* the network calls one loop iteration makes for item i: one GET, whatever it
\* comes to
Requests(i, outcome) == <<Get(i, outcome)>>

\* the output file of a fetching script before and after its final write
NoOutput == [written |-> FALSE, content |-> <<>>]
Output(content) == [written |-> TRUE, content |-> content]

\* success_count = 0 (line 78); no script but the logo fetcher has the counter
CountIdle == success_count = 0

\* slip of the logo loop: it ends one member early
AfterItemShort(i) == IF i + 1 < nItems THEN "loop" ELSE "save"

FetchInit ==
    /\ fetchScript \in FetchScripts
    /\ nItems \in 0..MaxItems
    /\ fetchPc = IF nItems = 0 THEN "save" ELSE "loop"
    /\ item_idx = 0
    /\ net_log = <<>>
    /\ written_files = {}
    /\ fetched = <<>>
    /\ failed = <<>>
    /\ output_file = NoOutput

\* where the loop stands after its i-th item
AfterItem(i) == IF i < nItems THEN "loop" ELSE "save"

\* slip of the snapshot fetchers: a failed item ends the loop
AfterItemStopOnFailure(i, outcome) ==
    IF outcome = "ok" /\ i < nItems THEN "loop" ELSE "save"

\* the loop goes on after every outcome: `continue` after a status other than
\* 200, and `except Exception` closes the loop body
AfterItemOutcome(i, outcome) == AfterItem(i)

\* time.sleep(2) is the last statement of the try block: it runs only when the
\* item was fetched, parsed and saved
SleepAfter(outcome) == IF outcome = "ok" THEN <<Sleep>> ELSE <<>>

\* slip of the snapshot fetchers: every entry carries the date of the first item
SnapshotEntryFirstDate(i, member_count) == [date |-> 1, member_count |-> member_count]

\* the entry appended to all_members_data / all_snapshots for item i, as far as
\* the summary reads it; the date of an item is its place in the input
SnapshotEntry(i, member_count) == [date |-> i, member_count |-> member_count]

\* one iteration of the loop of fetch_members.py (lines 32-96) or of
\* fetch_nlconnect_members.py (lines 77-112)
FetchSnapshot ==
    /\ fetchScript \in SnapshotFetchers
    /\ fetchPc = "loop"
    /\ item_idx < nItems
    /\ \E outcome \in FetchOutcomes, member_count \in 0..MaxMembers :
         LET i == item_idx + 1
         IN  /\ net_log' = net_log \o Requests(i, outcome) \o SleepAfter(outcome)
             /\ IF outcome = "ok"
                THEN /\ written_files' = written_files \cup {i}
                     /\ fetched' = Append(fetched, SnapshotEntry(i, member_count))
                ELSE /\ member_count = 0
                     /\ UNCHANGED <<written_files, fetched>>
             /\ item_idx' = i
             /\ fetchPc' = AfterItemOutcome(i, outcome)
    /\ UNCHANGED <<fetchScript, nItems, failed, output_file, outsideFetch>>

\* the summary of lines 103-112 / 118-121
WriteSummary ==
    /\ fetchScript \in SnapshotFetchers
    /\ fetchPc = "save"
    /\ output_file' = Output(fetched)
    /\ fetchPc' = "done"
    /\ UNCHANGED <<fetchScript, nItems, item_idx, net_log, written_files, fetched,
                   failed, outsideFetch>>

\* what fetch_logo_from_profile may come to: a logo URL, a page without a logo
\* (None), or an exception (HTTPError for a status other than 200, URLError,
\* anything else), which is caught and gives None
LogoOutcomes == {"ok", "no logo", "status", "exception"}

\* one iteration of the loop of fetch_company_logos_live.py (lines 80-90)
FetchLogo ==
    /\ fetchScript = "fetch_company_logos_live"
    /\ fetchPc = "loop"
    /\ item_idx < nItems
    /\ \E outcome \in LogoOutcomes :
         LET i == item_idx + 1
             sleep == IF i % LOGO_SLEEP_EVERY = 0 THEN <<Sleep>> ELSE <<>>
         IN  /\ net_log' = net_log \o sleep \o Requests(i, outcome)
             /\ IF outcome = "ok"
                THEN /\ fetched' = Append(fetched, i)
                     /\ success_count' = success_count + 1
                     /\ UNCHANGED failed
                ELSE /\ failed' = Append(failed, i)
                     /\ UNCHANGED <<fetched, success_count>>
             /\ item_idx' = i
             /\ fetchPc' = AfterItem(i)
    /\ UNCHANGED <<fetchScript, nItems, written_files, output_file, outsideLogoLoop>>

\* logos_fetched.json, lines 98-101
SaveLogos ==
    /\ fetchScript = "fetch_company_logos_live"
    /\ fetchPc = "save"
    /\ output_file' = Output(fetched)
    /\ fetchPc' = "done"
    /\ UNCHANGED <<fetchScript, nItems, item_idx, net_log, written_files, fetched,
                   failed, outsideFetch>>

\* one iteration of the loop of check_microsoft_partners.py (lines 79-133): a
\* slug whose search name is shorter than 3 is passed over without a call;
\* otherwise search_partner is called and time.sleep(0.5) ends the iteration
CheckPartner ==
    /\ fetchScript = "check_microsoft_partners"
    /\ fetchPc = "loop"
    /\ item_idx < nItems
    /\ \E short_name \in BOOLEAN, outcome \in FetchOutcomes, found \in BOOLEAN :
         LET i == item_idx + 1
         IN  /\ IF short_name
                THEN /\ outcome = "ok" /\ ~found
                     /\ UNCHANGED <<net_log, fetched>>
                ELSE /\ net_log' = net_log \o <<Get(i, outcome), Sleep>>
                     /\ found => outcome = "ok"
                     /\ fetched' = IF found THEN Append(fetched, i) ELSE fetched
             /\ item_idx' = i
             /\ fetchPc' = AfterItem(i)
    /\ UNCHANGED <<fetchScript, nItems, written_files, failed, output_file, outsideFetch>>

\* microsoft_partners.json, lines 139-146
SavePartners ==
    /\ fetchScript = "check_microsoft_partners"
    /\ fetchPc = "save"
    /\ output_file' = Output(fetched)
    /\ fetchPc' = "done"
    /\ UNCHANGED <<fetchScript, nItems, item_idx, net_log, written_files, fetched,
                   failed, outsideFetch>>

FetchNext ==
    \/ FetchSnapshot
    \/ WriteSummary
    \/ FetchLogo
    \/ SaveLogos
    \/ CheckPartner
    \/ SavePartners

\* no fetching script runs
FetchIdle ==
    /\ fetchScript = "none"
    /\ fetchPc = "idle"
    /\ nItems = 0
    /\ item_idx = 0
    /\ net_log = <<>>
    /\ written_files = {}
    /\ fetched = <<>>
    /\ failed = <<>>
    /\ output_file = NoOutput

-----------------------------------------------------------------------------
\* The names of the snapshot files

DigitSeq == <<"0","1","2","3","4","5","6","7","8","9">>

\* slip of the date format: fields written without leading zeros
Pad2NoZero(n) ==
    IF n < 10 THEN <<DigitSeq[n + 1]>>
    ELSE <<DigitSeq[(n \div 10) + 1], DigitSeq[(n % 10) + 1]>>

\* %m, %d, %H, %M, %S: two digits
Pad2(n) == <<DigitSeq[(n \div 10) + 1], DigitSeq[(n % 10) + 1]>>

\* %Y: four digits
Pad4(n) == Pad2(n \div 100) \o Pad2(n % 100)

\* the moments the snapshots are taken at
Timestamps ==
    [year : {2023, 2024}, month : {2, 11}, day : {3, 20},
     hour : {9, 10}, minute : {5, 40}, second : {7, 30}]

\* moment s is before moment t
Before(s, t) ==
    LET a == <<s.year, s.month, s.day, s.hour, s.minute, s.second>>
        b == <<t.year, t.month, t.day, t.hour, t.minute, t.second>>
    IN  \E k \in 1..6 : a[k] < b[k] /\ \A j \in 1..(k - 1) : a[j] = b[j]

\* strftime('%Y-%m-%d %H:%M:%S'), the form str() gives a pandas Timestamp too
FormatDate(t) ==
    Pad4(t.year) \o <<"-">> \o Pad2(t.month) \o <<"-">> \o Pad2(t.day) \o <<" ">> \o
    Pad2(t.hour) \o <<":">> \o Pad2(t.minute) \o <<":">> \o Pad2(t.second)

\* str.replace(old, new) for single characters
ReplaceChar(s, old, new) == [k \in 1..Len(s) |-> IF s[k] = old THEN new ELSE s[k]]

MEMBERS_PREFIX == <<"m","e","m","b","e","r","s","_">>
EXT_JSON == <<".","j","s","o","n">>

\* f"members_{datum.replace(' ', '_').replace(':', '-')}.json"
SnapshotFileName(datum) ==
    MEMBERS_PREFIX \o ReplaceChar(ReplaceChar(datum, " ", "_"), ":", "-") \o EXT_JSON

NameInit ==
    /\ namePc = "dated"
    /\ ts_a \in Timestamps
    /\ ts_b \in Timestamps
    /\ date_a = FormatDate(ts_a)
    /\ date_b = FormatDate(ts_b)
    /\ file_a = <<>>
    /\ file_b = <<>>

\* the fetcher names the files of the two snapshots
NameSnapshotFiles ==
    /\ namePc = "dated"
    /\ file_a' = SnapshotFileName(date_a)
    /\ file_b' = SnapshotFileName(date_b)
    /\ namePc' = "named"
    /\ UNCHANGED <<ts_a, ts_b, date_a, date_b, outsideName>>

NameNext == NameSnapshotFiles

\* no file is named
NameIdle ==
    /\ namePc = "idle"
    /\ ts_a = 0
    /\ ts_b = 0
    /\ date_a = <<>>
    /\ date_b = <<>>
    /\ file_a = <<>>
    /\ file_b = <<>>

-----------------------------------------------------------------------------
\* The cross-organisation normalisation next to the slug normaliser

MaxNormPieces == 2   \* most pieces an identifier is built from

NormPieces ==
    {<<"a","c","-">>, <<"b","v">>, <<"b","-","v">>, <<"b",".","v",".">>,
     <<"n","l">>, <<"-">>}

NormInputs == {Flatten(l) : l \in ListsUpTo(NormPieces, MaxNormPieces)}

NormInit ==
    /\ normPc = "start"
    /\ norm_a \in NormInputs
    /\ norm_b \in NormInputs
    /\ slug_a = None
    /\ slug_b = None
    /\ key_a = None
    /\ key_b = None
    /\ key_aa = None

\* both identifiers go through slugify and through normalize_slug
NormalizeOnce ==
    /\ normPc = "start"
    /\ slug_a' = slugify(norm_a)
    /\ slug_b' = slugify(norm_b)
    /\ key_a' = normalize_slug(norm_a)
    /\ key_b' = normalize_slug(norm_b)
    /\ normPc' = "once"
    /\ UNCHANGED <<norm_a, norm_b, key_aa, outsideNorm>>

\* normalize_slug is applied to its own result
NormalizeAgain ==
    /\ normPc = "once"
    /\ key_aa' = normalize_slug(key_a)
    /\ normPc' = "twice"
    /\ UNCHANGED <<norm_a, norm_b, slug_a, slug_b, key_a, key_b, outsideNorm>>

NormNext == NormalizeOnce \/ NormalizeAgain

\* nothing is normalised
NormIdle ==
    /\ normPc = "idle"
    /\ norm_a = <<>>
    /\ norm_b = <<>>
    /\ slug_a = None
    /\ slug_b = None
    /\ key_a = None
    /\ key_b = None
    /\ key_aa = None

-----------------------------------------------------------------------------
\* The Sankey builders

MaxSankeyFlows == 2   \* most records in the member_flows.json a builder reads

SankeyScripts == {"create_sankey_diagram", "create_nlconnect_sankey"}

\* the counts a flow record carries
SankeyCounts == {0, 1, 3}

\* member_flows.json: record k runs from snapshot k to snapshot k + 1
SankeyFlowFiles ==
    UNION {{[k \in 1..n |-> [from_date |-> k, to_date |-> k + 1,
                             stayed |-> c[k][1], joined |-> c[k][2],
                             left |-> c[k][3]]] :
              c \in [1..n -> SankeyCounts \X SankeyCounts \X SankeyCounts]} :
           n \in 0..MaxSankeyFlows}

SankeyInit ==
    /\ sankeyScript \in SankeyScripts
    /\ sankeyPc = "filter"
    /\ flows_json \in SankeyFlowFiles
    /\ active_flows = <<>>
    /\ active_idx = 0
    /\ sankey_entries = <<>>
    /\ values = <<>>

\* a filter that lets every record through
ActiveFlowAlways(script, f) == TRUE

\* the condition of the active_flows comprehension
ActiveFlow(script, f) ==
    IF script = "create_sankey_diagram"
    THEN f.left > 0
    ELSE f.left > 0 \/ f.joined > 0

\* the nodes a link runs between
DateNode(d) == [kind |-> "date", date |-> d]
NewNode == [kind |-> "Nieuw / Toegetreden", date |-> 0]
GoneNode == [kind |-> "Vertrokken", date |-> 0]

\* the links one record of active_flows appends
FlowEntries(flow) ==
    (IF flow.stayed > 0
     THEN <<[source |-> DateNode(flow.from_date), target |-> DateNode(flow.to_date),
             value |-> flow.stayed, type |-> "stayed"]>>
     ELSE <<>>)
    \o
    (IF flow.joined > 0
     THEN <<[source |-> NewNode, target |-> DateNode(flow.to_date),
             value |-> flow.joined, type |-> "joined"]>>
     ELSE <<>>)
    \o
    (IF flow.left > 0
     THEN <<[source |-> DateNode(flow.from_date), target |-> GoneNode,
             value |-> flow.left, type |-> "left"]>>
     ELSE <<>>)

\* active_flows = [f for f in flows if ...]
FilterActive ==
    /\ sankeyPc = "filter"
    /\ active_flows' = SelectSeq(flows_json, LAMBDA f : ActiveFlow(sankeyScript, f))
    /\ sankeyPc' = "entries"
    /\ UNCHANGED <<sankeyScript, flows_json, active_idx, sankey_entries, values,
                   outsideSankey>>

\* one pass of `for i, flow in enumerate(active_flows)`
AddEntries ==
    /\ sankeyPc = "entries"
    /\ active_idx < Len(active_flows)
    /\ sankey_entries' = sankey_entries \o FlowEntries(active_flows[active_idx + 1])
    /\ active_idx' = active_idx + 1
    /\ UNCHANGED <<sankeyScript, sankeyPc, flows_json, active_flows, values,
                   outsideSankey>>

\* df = pd.DataFrame(sankey_entries); df['source'] ...; fig.write_html:
\* a frame built from an empty list has no column 'source'
BuildFigure ==
    /\ sankeyPc = "entries"
    /\ active_idx = Len(active_flows)
    /\ IF sankey_entries = <<>>
       THEN /\ sankeyPc' = "KeyError"
            /\ UNCHANGED values
       ELSE /\ sankeyPc' = "written"
            /\ values' = [j \in 1..Len(sankey_entries) |-> sankey_entries[j].value]
    /\ UNCHANGED <<sankeyScript, flows_json, active_flows, active_idx, sankey_entries,
                   outsideSankey>>

SankeyNext == FilterActive \/ AddEntries \/ BuildFigure

\* no Sankey builder runs
SankeyIdle ==
    /\ sankeyScript = "none"
    /\ sankeyPc = "idle"
    /\ flows_json = <<>>
    /\ active_flows = <<>>
    /\ active_idx = 0
    /\ sankey_entries = <<>>
    /\ values = <<>>

-----------------------------------------------------------------------------
\* The URL-to-slug extractors of the four scripts side by side

MaxUrlPieces == 2    \* most pieces the part of a URL behind its host is built from

\* create_sankey_diagram.py: its slugify is the one of analyze_member_flow.py,
\* line by line
extract_company_from_url(u0) ==
    LET u == Strip(u0, Whitespace)
    IN  IF /\ Contains(u, LEDEN)
           /\ ~\E ext \in {EXT_JPG, EXT_PNG, EXT_JPEG, EXT_GIF} : EndsWith(Lower(u), ext)
        THEN LET candidate == Strip(Strip(SplitSecond(u, LEDEN), {"/"}), Whitespace)
             IN  IF ~StartsWith(candidate, WP_CONTENT)
                 THEN slugify(candidate)
                 ELSE None
        ELSE None

\* check_microsoft_partners.py
slugify_url(u) ==
    IF Contains(u, LEDEN) /\ ~Contains(Lower(u), LOGO)
    THEN LET s == Lower(Strip(Strip(SplitSecond(u, LEDEN), {"/"}), Whitespace))
         IN  IF ~StartsWith(s, WP_CONTENT)
             THEN Strip(SubHyphens(SubNonAlnum(SubBv(s))), {"-"})
             ELSE None
    ELSE None

\* what the part of a URL behind the host is put together from
UrlPieces ==
    {LEDEN, <<"a","c">>, <<"A">>, <<"-","b",".","v",".">>, LOGO_PREFIX,
     EXT_JPEG, EXT_PNG, <<"/">>}

ExtractInputs == {HTTPS_X \o Flatten(ps) : ps \in ListsUpTo(UrlPieces, MaxUrlPieces)}

ExtractInit ==
    /\ extractPc = "start"
    /\ member_url \in ExtractInputs
    /\ company_flow = None
    /\ company_sankey = None
    /\ company_cross = None
    /\ company_partner = None

\* each script's extractor applied to the URL
ExtractAll ==
    /\ extractPc = "start"
    /\ company_flow' = extract_company_name(member_url)
    /\ company_sankey' = extract_company_from_url(member_url)
    /\ company_cross' = slugify_nldigital(member_url)
    /\ company_partner' = slugify_url(member_url)
    /\ extractPc' = "done"
    /\ UNCHANGED <<member_url, outsideExtract>>

ExtractNext == ExtractAll

\* no URL is extracted
ExtractIdle ==
    /\ extractPc = "idle"
    /\ member_url = <<>>
    /\ company_flow = None
    /\ company_sankey = None
    /\ company_cross = None
    /\ company_partner = None

-----------------------------------------------------------------------------
\* The member counts in the node labels of a Sankey diagram

\* a members_*.json file as the fetchers write it ('member_count': len(members))
SnapshotFile(o, i, members) ==
    [date |-> FileDate(i), members |-> members, member_count |-> Len(members)]

\* the Sankey builder of an organisation
SankeyOf(o) == IF o = "nldigital" THEN "create_sankey_diagram" ELSE "create_nlconnect_sankey"

\* the count the builder stores for a file: create_sankey_diagram.py counts the
\* slugs its own extractor keeps of the URLs, create_nlconnect_sankey.py reads
\* the member_count field
MemberCount(o, file) ==
    IF o = "nldigital"
    THEN Cardinality({extract_company_from_url(file.members[i]) :
                         i \in DOMAIN file.members} \ {None, <<>>})
    ELSE file.member_count

\* no flow record
NoFlow == [from_date |-> 0, to_date |-> 0, stayed |-> 0, joined |-> 0, left |-> 0,
           stayed_members |-> <<>>, joined_members |-> <<>>, left_members |-> <<>>]

LabelInit ==
    /\ labelOrg \in {"nldigital", "nlconnect"}
    /\ labelPc = "analyze"
    /\ \E m1 \in MemberLists(labelOrg), m2 \in MemberLists(labelOrg) :
         snapshot_files = <<SnapshotFile(labelOrg, 1, m1), SnapshotFile(labelOrg, 2, m2)>>
    /\ label_flow = NoFlow
    /\ member_counts = <<>>
    /\ from_count = 0
    /\ to_count = 0

\* the flow analysis: the two snapshots are loaded and their flow record is
\* written to member_flows.json
AnalyzeSnapshots ==
    /\ labelPc = "analyze"
    /\ label_flow' = FlowRecord(Snapshot(labelOrg, snapshot_files[1]),
                                Snapshot(labelOrg, snapshot_files[2]))
    /\ labelPc' = "count"
    /\ UNCHANGED <<labelOrg, snapshot_files, member_counts, from_count, to_count,
                   outsideLabel>>

\* the Sankey builder's loop over member_files: member_counts[data['date']]
CountMembers ==
    /\ labelPc = "count"
    /\ member_counts' = [i \in DOMAIN snapshot_files |->
                            MemberCount(labelOrg, snapshot_files[i])]
    /\ labelPc' = "label"
    /\ UNCHANGED <<labelOrg, snapshot_files, label_flow, from_count, to_count,
                   outsideLabel>>

\* the builder's filter and the node labels of a record that passes it
LabelNodes ==
    /\ labelPc = "label"
    /\ IF ActiveFlow(SankeyOf(labelOrg), label_flow)
       THEN /\ from_count' = member_counts[label_flow.from_date]
            /\ to_count' = member_counts[label_flow.to_date]
            /\ labelPc' = "labelled"
       ELSE /\ UNCHANGED <<from_count, to_count>>
            /\ labelPc' = "filtered"
    /\ UNCHANGED <<labelOrg, snapshot_files, label_flow, member_counts, outsideLabel>>

LabelNext == AnalyzeSnapshots \/ CountMembers \/ LabelNodes

\* no labels are built
LabelIdle ==
    /\ labelOrg = "none"
    /\ labelPc = "idle"
    /\ snapshot_files = <<>>
    /\ label_flow = NoFlow
    /\ member_counts = <<>>
    /\ from_count = 0
    /\ to_count = 0

-----------------------------------------------------------------------------
\* The loading loop of analyze_member_flow.py on one URL

AddInit ==
    /\ addPc = "start"
    /\ raw_name \in SlugInputs
    /\ name_slug = None
    /\ names_added = {}

\* slugify on the name, and the loop body of lines 70-74 on its profile URL
AddCompanyName ==
    /\ addPc = "start"
    /\ name_slug' = slugify(raw_name)
    /\ names_added' = CompanyNames(<<HTTPS_X \o LEDEN \o raw_name>>)
    /\ addPc' = "done"
    /\ UNCHANGED <<raw_name, outsideAdd>>

AddNext == AddCompanyName

\* the loop body does not run
AddIdle ==
    /\ addPc = "idle"
    /\ raw_name = <<>>
    /\ name_slug = None
    /\ names_added = {}

-----------------------------------------------------------------------------
\* a run of one of the two flow analyses
InitFlow == FlowInit /\ SlugIdle /\ CrossIdle /\ FetchIdle /\ NameIdle /\ NormIdle /\ SankeyIdle /\ ExtractIdle /\ LabelIdle /\ AddIdle /\ CountIdle
SpecFlow == InitFlow /\ [][FlowNext]_vars

\* the slug normaliser on one input
InitSlug == SlugInit /\ FlowIdle /\ CrossIdle /\ FetchIdle /\ NameIdle /\ NormIdle /\ SankeyIdle /\ ExtractIdle /\ LabelIdle /\ AddIdle /\ CountIdle
SpecSlug == InitSlug /\ [][SlugNext]_vars

\* a run of the cross-organisation matcher
InitCross == CrossInit /\ SlugIdle /\ FlowIdle /\ FetchIdle /\ NameIdle /\ NormIdle /\ SankeyIdle /\ ExtractIdle /\ LabelIdle /\ AddIdle /\ CountIdle
SpecCross == InitCross /\ [][CrossNext]_vars

\* a run of one of the fetching scripts
InitFetch == FetchInit /\ SlugIdle /\ FlowIdle /\ CrossIdle /\ NameIdle /\ NormIdle /\ SankeyIdle /\ ExtractIdle /\ LabelIdle /\ AddIdle /\ CountIdle
SpecFetch == InitFetch /\ [][FetchNext]_vars
\* the script is not stopped from outside: it goes on until its final write
FairSpecFetch == SpecFetch /\ WF_vars(FetchNext)


\* the names of two snapshot files
InitName == NameInit /\ SlugIdle /\ FlowIdle /\ CrossIdle /\ FetchIdle /\ NormIdle /\ SankeyIdle /\ ExtractIdle /\ LabelIdle /\ AddIdle /\ CountIdle
SpecName == InitName /\ [][NameNext]_vars


\* the union loops of the matcher over two given flow lists
InitCollect == LoadedInit /\ SlugIdle /\ FlowIdle /\ FetchIdle /\ NameIdle /\ NormIdle /\ SankeyIdle /\ ExtractIdle /\ LabelIdle /\ AddIdle /\ CountIdle
SpecCollect == InitCollect /\ [][CollectNext]_vars

\* a whole run of the matcher over two given flow lists
SpecMatchLoaded == InitCollect /\ [][CrossNext]_vars


\* the two normalisations on a pair of identifiers
InitNorm == NormInit /\ SlugIdle /\ FlowIdle /\ CrossIdle /\ FetchIdle /\ NameIdle /\ SankeyIdle /\ ExtractIdle /\ LabelIdle /\ AddIdle /\ CountIdle
SpecNorm == InitNorm /\ [][NormNext]_vars


\* a run of one of the two Sankey builders
InitSankey == SankeyInit /\ SlugIdle /\ FlowIdle /\ CrossIdle /\ FetchIdle /\ NameIdle /\ NormIdle /\ ExtractIdle /\ LabelIdle /\ AddIdle /\ CountIdle
SpecSankey == InitSankey /\ [][SankeyNext]_vars


\* the four extractors on one URL
InitExtract == ExtractInit /\ SlugIdle /\ FlowIdle /\ CrossIdle /\ FetchIdle /\ NameIdle /\ NormIdle /\ SankeyIdle /\ LabelIdle /\ AddIdle /\ CountIdle
SpecExtract == InitExtract /\ [][ExtractNext]_vars


\* a flow analysis followed by the Sankey builder of the same organisation
InitLabel == LabelInit /\ SlugIdle /\ FlowIdle /\ CrossIdle /\ FetchIdle /\ NameIdle /\ NormIdle /\ SankeyIdle /\ ExtractIdle /\ AddIdle /\ CountIdle
SpecLabel == InitLabel /\ [][LabelNext]_vars


\* the loading loop of analyze_member_flow.py on one URL
InitAdd == AddInit /\ SlugIdle /\ FlowIdle /\ CrossIdle /\ FetchIdle /\ NameIdle /\ NormIdle /\ SankeyIdle /\ ExtractIdle /\ LabelIdle /\ CountIdle
SpecAdd == InitAdd /\ [][AddNext]_vars

-----------------------------------------------------------------------------
(* Properties of the flow analyses (checked under SpecFlow)                *)

\* the member sets the analysis built for the pair of flow record i
SetA(i) == member_snapshots[i].members
SetB(i) == member_snapshots[i + 1].members

\* C1: for every pair of consecutive snapshots A (earlier) and B (later), the
\* flow record of either analysis has stayed_members = A \cap B,
\* joined_members = B \ A and left_members = A \ B
C1_FlowSetsAreSetAlgebra ==
    \A i \in DOMAIN sankey_data :
        /\ ToSet(sankey_data[i].stayed_members) = SetA(i) \cap SetB(i)
        /\ ToSet(sankey_data[i].joined_members) = SetB(i) \ SetA(i)
        /\ ToSet(sankey_data[i].left_members) = SetA(i) \ SetB(i)

\* a finished NLdigital run with a record in which members stayed, joined and left
C1_Witness ==
    /\ org = "nldigital"
    /\ flowPc = "done"
    /\ \E i \in DOMAIN flow_file :
         /\ flow_file[i].stayed_members # <<>>
         /\ flow_file[i].joined_members # <<>>
         /\ flow_file[i].left_members # <<>>

\* C2: in every flow record the lists stayed, joined and left are pairwise
\* disjoint, hold no member twice, and their union is exactly A \cup B
C2_FlowCategoriesPartition ==
    \A i \in DOMAIN sankey_data :
        LET r == sankey_data[i]
            S == ToSet(r.stayed_members)
            J == ToSet(r.joined_members)
            L == ToSet(r.left_members)
        IN  /\ S \cap J = {} /\ S \cap L = {} /\ J \cap L = {}
            /\ S \cup J \cup L = SetA(i) \cup SetB(i)
            /\ Len(r.stayed_members) = Cardinality(S)
            /\ Len(r.joined_members) = Cardinality(J)
            /\ Len(r.left_members) = Cardinality(L)

\* an NLConnect record, still in the flow loop, with all three categories filled
\* from two snapshots of two members each
C2_Witness ==
    /\ org = "nlconnect"
    /\ flowPc = "flow"
    /\ \E i \in DOMAIN sankey_data :
         /\ Cardinality(SetA(i)) = 2 /\ Cardinality(SetB(i)) = 2
         /\ sankey_data[i].stayed = 1
         /\ sankey_data[i].joined = 1
         /\ sankey_data[i].left = 1

\* C3: in every flow record stayed + left = |A| and stayed + joined = |B|, so
\* joined - left is the net change |B| - |A|
C3_FlowCountsAddUp ==
    \A i \in DOMAIN sankey_data :
        LET r == sankey_data[i]
        IN  /\ r.stayed + r.left = Cardinality(SetA(i))
            /\ r.stayed + r.joined = Cardinality(SetB(i))
            /\ r.joined - r.left = Cardinality(SetB(i)) - Cardinality(SetA(i))

\* three snapshots that grow and then shrink (the 10, 12, 9 case in small):
\* two records, net change +1 and then -2, with members leaving in the first
C3_Witness ==
    /\ flowPc = "done"
    /\ Len(flow_file) = 2
    /\ flow_file[1].left > 0
    /\ flow_file[1].joined - flow_file[1].left = 1
    /\ flow_file[2].joined - flow_file[2].left = -2

\* C4: N snapshots loaded in date order give exactly N-1 flow records (none for
\* N = 0 or 1); record i goes from snapshot i to snapshot i+1, so no pair is
\* skipped, repeated or compared out of order
C4_OneRecordPerConsecutivePair ==
    /\ \A i \in DOMAIN sankey_data :
         /\ i + 1 <= Len(member_snapshots)
         /\ sankey_data[i].from_date = member_snapshots[i].date
         /\ sankey_data[i].to_date = member_snapshots[i + 1].date
         /\ sankey_data[i].from_date < sankey_data[i].to_date
    /\ flowPc = "done" =>
         /\ Len(member_snapshots) = nFiles
         /\ flow_file = sankey_data
         /\ Len(flow_file) = IF nFiles >= 1 THEN nFiles - 1 ELSE 0

\* a finished run over three snapshots with its two records
C4_Witness ==
    /\ flowPc = "done"
    /\ nFiles = 3
    /\ Len(flow_file) = 2
    /\ flow_file[1].to_date = flow_file[2].from_date

\* pairs of member URLs of the pool that differ only in the spelling of the
\* legal suffix: same stem, two spellings
SuffixSpellingPairs ==
    {p \in UrlPool \X UrlPool :
        /\ p[1] # p[2]
        /\ \E stem \in UrlStems, j, k \in DOMAIN BvSpellings :
             p[1] = MemberUrl(stem, j) /\ p[2] = MemberUrl(stem, k)}

\* C7: in the NLdigital analysis, when the company's URL in the earlier snapshot
\* and its URL in the later snapshot differ only in the spelling of the legal
\* suffix, the company is in stayed and in neither left nor joined.
\* (The earlier snapshot lists URL u exactly when it holds the identifier
\* extract_company_name(u), whatever other URL has the same identifier.)
C7_SuffixSpellingStays ==
    org = "nldigital" =>
        \A i \in DOMAIN sankey_data : \A p \in SuffixSpellingPairs :
            LET a == extract_company_name(p[1])
                b == extract_company_name(p[2])
            IN  (a \in SetA(i) /\ b \in SetB(i)) =>
                    /\ a \in ToSet(sankey_data[i].stayed_members)
                    /\ a \notin ToSet(sankey_data[i].left_members)
                    /\ b \notin ToSet(sankey_data[i].joined_members)

\* image file names, whatever the case of the extension
IsImageFile(url) == \E e \in Extensions : EndsWith(Lower(url), e)

\* a URL that is no member profile reference: no /leden/ prefix, a logo image
\* file, or a path under wp-content
NotMemberProfile(url) ==
    \/ ~Contains(url, LEDEN)
    \/ IsImageFile(url)
    \/ Contains(url, <<"/">> \o WP_CONTENT)

\* C8: the slug extractor returns None for every URL that is no member profile
\* reference, and such a URL contributes no member to the snapshot: the
\* snapshot's members are the slugs of the profile URLs of the file alone
C8_NonMemberUrlsYieldNone ==
    (org = "nldigital" /\ member_snapshots # <<>>) =>
        /\ \A i \in DOMAIN data.members :
             NotMemberProfile(data.members[i]) =>
                 extract_company_name(data.members[i]) = None
        /\ member_snapshots[Len(member_snapshots)].members \subseteq
             {extract_company_name(data.members[i]) :
                 i \in {j \in DOMAIN data.members : ~NotMemberProfile(data.members[j])}}

-----------------------------------------------------------------------------
(* Properties of the slug normaliser (checked under SpecSlug)              *)

\* C5: slug normalisation is idempotent: slugify(slugify(x)) = slugify(x) for
\* every input string x
C5_SlugifyIdempotent ==
    slugPc \in {"twice", "done"} => slugOut2 = slugOut1

\* the input ends where a new token starts: it is empty or its last character
\* is not alphanumeric, so a suffix written after it is a token of its own
EndsAtTokenBoundary(s) == s = <<>> \/ ~IsAlnum(ToLower(s[Len(s)]))

\* the slug ends in the single token "bv"
EndsInBvToken(slug) == slug = <<"b","v">> \/ EndsWith(slug, <<"-","b","v">>)

\* C6: for every company-name stem, the stem followed by "b v", "b-v", "b.v",
\* "b.v." or "bv" is mapped to one and the same slug, which ends in the single
\* token "bv"
C6_BvSuffixRecognized ==
    (slugPc = "done" /\ EndsAtTokenBoundary(slugIn)) =>
        \A k \in DOMAIN bvSlugs :
            /\ bvSlugs[k] = bvSlugs[1]
            /\ EndsInBvToken(bvSlugs[k])

--------------------------------------------------------------------------------
\* Cross-organisation matches

\* the exact match has been computed
ExactMatched == crossPc \in {"current", "IndexError", "fuzzy", "dual", "done"}

\* C9: once the exact match is computed, a slug is in the NLdigital-to-NLConnect
\* exact-match result exactly when it is both in the union of NLdigital's
\* left_members and in the union of NLConnect's joined_members, and it is in the
\* NLConnect-to-NLdigital result exactly when it is both in the union of
\* NLConnect's left_members and in the union of NLdigital's joined_members; the
\* results hold no other slug.
C9_ExactMatchIsIntersection ==
    ExactMatched =>
        /\ \A x \in CrossSlugPool :
             /\ x \in digital_left_connect_joined
                  <=> (x \in nldigital_departed /\ x \in nlconnect_joined)
             /\ x \in connect_left_digital_joined
                  <=> (x \in nlconnect_departed /\ x \in nldigital_joined)
        /\ digital_left_connect_joined \subseteq CrossSlugPool
        /\ connect_left_digital_joined \subseteq CrossSlugPool

\* both results hold a slug, and each holds one the other lacks although that
\* slug is among the departed and the joined slugs of the run
C9_Witness ==
    /\ ExactMatched
    /\ \E x \in digital_left_connect_joined : x \notin connect_left_digital_joined
    /\ \E y \in connect_left_digital_joined : y \notin digital_left_connect_joined

\* the fuzzy match has been computed
FuzzyMatched == crossPc \in {"dual", "done"}

\* the digital_to_connect entries of cross_flows
D2CEntries ==
    {cross_flows[i] : i \in {j \in 1..Len(cross_flows) :
                                cross_flows[j].direction = "digital_to_connect"}}

\* d left NLdigital, c joined NLConnect, they are different strings that
\* normalize_slug makes equal, and neither has an exact match (d did not join
\* NLConnect, c did not leave NLdigital)
FuzzyOnlyPair(d, c) ==
    /\ d \in nldigital_departed
    /\ c \in nlconnect_joined
    /\ d # c
    /\ normalize_slug(d) = normalize_slug(c)
    /\ d \notin nlconnect_joined
    /\ c \notin nldigital_departed

\* cross_flows pairs d with c in the direction NLdigital to NLConnect
PairReported(d, c) ==
    \E e \in D2CEntries : e.nldigital_slug = d /\ e.nlconnect_slug = c

--------------------------------------------------------------------------------
\* The flow file

\* l is sorted and has no entry twice
StrictlySorted(l) == \A k \in 1..(Len(l) - 1) : StrLess(l[k], l[k + 1])

\* C12: member_flows.json holds the flow records in snapshot order (each record
\* starts at the snapshot the one before it ends at, and ends later than it
\* starts); stayed_members, joined_members and left_members of each record are
\* sorted and duplicate-free, and stayed, joined and left are their lengths.
C12_FlowFileWellFormed ==
    flowPc = "done" =>
        /\ \A i \in 1..Len(flow_file) :
             LET r == flow_file[i]
             IN  /\ r.from_date < r.to_date
                 /\ i > 1 => flow_file[i - 1].to_date = r.from_date
                 /\ StrictlySorted(r.stayed_members)
                 /\ StrictlySorted(r.joined_members)
                 /\ StrictlySorted(r.left_members)
                 /\ r.stayed = Len(r.stayed_members)
                 /\ r.joined = Len(r.joined_members)
                 /\ r.left = Len(r.left_members)
        /\ Len(flow_file) > 0 => flow_file[1].from_date = member_snapshots[1].date

\* a written file of two records, one of them with two members in a list
C12_Witness ==
    /\ flowPc = "done"
    /\ Len(flow_file) = 2
    /\ \E i \in 1..2 : Len(flow_file[i].stayed_members) = 2 \/ Len(flow_file[i].left_members) = 2
    /\ \E i \in 1..2 : flow_file[i].joined > 0

--------------------------------------------------------------------------------
\* The fetch loops

\* the items a GET was issued for, one entry per GET
Requested == SelectSeq(net_log, LAMBDA e : e.op = "get")

\* the number of GETs issued for item i
RequestCount(i) == Len(SelectSeq(net_log, LAMBDA e : e.op = "get" /\ e.item = i))

\* the items whose GET did not come to a status 200 with a body that parses
FailedItems == {Requested[k].item : k \in {j \in 1..Len(Requested) : Requested[j].outcome # "ok"}}

\* the run of a snapshot fetcher is complete: the loop went through every item
\* and summary.json lists the snapshots that were written, in order
FetchCompleted ==
    /\ fetchPc = "done"
    /\ item_idx = nItems
    /\ \A i \in 1..nItems : RequestCount(i) >= 1
    /\ output_file = Output(fetched)
    /\ Len(output_file.content) = Cardinality(written_files)
    /\ {output_file.content[k].date : k \in 1..Len(output_file.content)} = written_files
    /\ written_files = (1..nItems) \ FailedItems

\* C11: in fetch_members.py and fetch_nlconnect_members.py, whatever each item
\* comes to (a status other than 200, an exception, success), the loop reaches
\* its last item, the run completes and summary.json is written with the
\* snapshots that were produced.
C11_FetchRunCompletes ==
    (fetchScript \in SnapshotFetchers) => <>FetchCompleted

\* a run of two items whose first item failed is complete and its summary holds
\* the second item's snapshot
C11_Witness ==
    /\ fetchScript \in SnapshotFetchers
    /\ FetchCompleted
    /\ nItems = 2
    /\ 1 \in FailedItems
    /\ written_files = {2}

\* C16: in the loops of fetch_members.py, fetch_nlconnect_members.py and
\* fetch_company_logos_live.py an item is requested at most once and the items
\* are requested in their order; an item whose fetch failed has no snapshot file
\* and no result; and when the loop has ended every item was requested.
C16_FailedItemSkippedNotRetried ==
    (fetchScript \in SnapshotFetchers \cup {"fetch_company_logos_live"}) =>
        /\ \A i \in 1..nItems : RequestCount(i) <= 1
        /\ \A k \in 1..Len(Requested) : Requested[k].item = k
        /\ Len(Requested) = item_idx
        /\ \A i \in FailedItems :
             /\ i \notin written_files
             /\ fetchScript \in SnapshotFetchers =>
                    \A k \in 1..Len(fetched) : fetched[k].date # i
             /\ fetchScript = "fetch_company_logos_live" =>
                    \A k \in 1..Len(fetched) : fetched[k] # i
        /\ fetchPc \in {"save", "done"} => \A i \in 1..nItems : RequestCount(i) = 1

\* the loop has ended after a failed first item and a second item that was
\* fetched
C16_Witness ==
    /\ fetchScript \in SnapshotFetchers \cup {"fetch_company_logos_live"}
    /\ fetchPc = "save"
    /\ nItems = 2
    /\ FailedItems = {1}
    /\ Len(fetched) = 1

\* C17: every network call of a fetching script is followed by a sleep before
\* the next network call is issued, whatever the call came to.
C17_SleepAfterEveryCall ==
    \A k \in 1..(Len(net_log) - 1) :
        net_log[k].op = "get" => net_log[k + 1].op = "sleep"

--------------------------------------------------------------------------------
\* The file names

\* C13: of two snapshots with dates of the form 'YYYY-MM-DD HH:MM:SS', the file
\* names members_<date with ' ' replaced by '_' and ':' by '-'>.json compare as
\* strings the way the dates compare in time, so the list of file names sorted
\* as strings has the earlier snapshot first.
C13_FileNamesSortByDate ==
    namePc = "named" =>
        /\ Before(ts_a, ts_b) <=> StrLess(file_a, file_b)
        /\ Before(ts_b, ts_a) <=> StrLess(file_b, file_a)
        /\ Before(ts_a, ts_b) => SortedList({file_a, file_b}) = <<file_a, file_b>>

\* two snapshots of the same day, the earlier at 09:40:30 and the later at
\* 10:05:07, with their files named
C13_Witness ==
    /\ namePc = "named"
    /\ ts_a.year = ts_b.year /\ ts_a.month = ts_b.month /\ ts_a.day = ts_b.day
    /\ ts_a.hour = 9 /\ ts_a.minute = 40 /\ ts_a.second = 30
    /\ ts_b.hour = 10 /\ ts_b.minute = 5 /\ ts_b.second = 7
    /\ StrLess(file_a, file_b)

--------------------------------------------------------------------------------
\* The departed and joined sets of the matcher

\* the slugs in the field of at least one record of the list
InSomeRecord(l, field) ==
    {s \in LoadedSlugPool : \E i \in 1..Len(l) : \E k \in 1..Len(l[i][field]) : l[i][field][k] = s}

\* C14: when the two loops have ended, a slug is in an organisation's departed
\* set exactly when it is in left_members of at least one flow record of that
\* organisation, and in its joined set exactly when it is in joined_members of
\* at least one of them.
C14_SetsAreUnionsOverRecords ==
    (flows_loaded /\ crossPc = "exact") =>
        /\ nldigital_departed = InSomeRecord(nldigital_flows, "left_members")
        /\ nldigital_joined = InSomeRecord(nldigital_flows, "joined_members")
        /\ nlconnect_departed = InSomeRecord(nlconnect_flows, "left_members")
        /\ nlconnect_joined = InSomeRecord(nlconnect_flows, "joined_members")

\* the loops have ended over an NLdigital list of two records with different
\* departures and an NLConnect list whose two records name the same slug
C14_Witness ==
    /\ flows_loaded
    /\ crossPc = "exact"
    /\ Len(nldigital_flows) = 2
    /\ nldigital_flows[1].left_members # <<>>
    /\ nldigital_flows[2].left_members # <<>>
    /\ nldigital_flows[1].left_members # nldigital_flows[2].left_members
    /\ Cardinality(nldigital_departed) = 2
    /\ Len(nlconnect_flows) = 2
    /\ nlconnect_flows[1].joined_members # <<>>
    /\ nlconnect_flows[1] = nlconnect_flows[2]
    /\ Cardinality(nlconnect_joined) = 1

--------------------------------------------------------------------------------
\* The cross-organisation normalisation

\* C15: two identifiers with the same slugify result have the same
\* normalize_slug result.
C15_NormalizeLooserThanSlugify ==
    normPc \in {"once", "twice"} => (slug_a = slug_b => key_a = key_b)

\* s has the shape of a slug: letters, digits and hyphens, with a letter or
\* digit at both ends
SlugShaped(s) ==
    /\ Len(s) >= 1
    /\ \A k \in 1..Len(s) : IsAlnum(s[k]) \/ s[k] = "-"
    /\ IsAlnum(s[1])
    /\ IsAlnum(s[Len(s)])

\* C20: for every slug x, normalize_slug(normalize_slug(x)) = normalize_slug(x).
C20_NormalizeSlugIdempotent ==
    (normPc = "twice" /\ SlugShaped(norm_a)) => key_aa = key_a

-----------------------------------------------------------------------------
\* Sankey builders

\* the builder has gone through every active record
SankeyLoopDone == sankeyPc \in {"written", "KeyError"}

\* the links of one type that belong to record f of member_flows.json
LinksOf(f, type) ==
    {j \in 1..Len(sankey_entries) :
        /\ sankey_entries[j].type = type
        /\ IF type = "joined"
           THEN sankey_entries[j].target = DateNode(f.to_date)
           ELSE sankey_entries[j].source = DateNode(f.from_date)}

\* record f is one the builder has to draw
Included(f) ==
    \/ sankeyScript = "create_sankey_diagram" /\ f.left > 0
    \/ sankeyScript = "create_nlconnect_sankey" /\ (f.left > 0 \/ f.joined > 0)

\* C18: a builder or analyzer whose input files exist and parse never aborts
\* with an unhandled error, whatever the files contain: a Sankey builder
\* never ends in the KeyError of a frame without columns.
C18_NoUnhandledAbort == sankeyPc # "KeyError"

\* C19: once a Sankey builder has gone through its records, every record of
\* member_flows.json that is active (NLdigital: left > 0; NLConnect: left > 0
\* or joined > 0) has exactly one stayed, joined and left link for each count
\* above zero, carrying that count as its value, and every other record and
\* every zero count has no link.
C19_LinksOfActiveRecords ==
    SankeyLoopDone =>
        \A k \in 1..Len(flows_json) : \A type \in {"stayed", "joined", "left"} :
            LET f == flows_json[k]
                links == LinksOf(f, type)
            IN  IF Included(f) /\ f[type] > 0
                THEN /\ Cardinality(links) = 1
                     /\ \A j \in links : sankey_entries[j].value = f[type]
                ELSE links = {}

\* the NLdigital builder has drawn a record with all three links and left out
\* a record in which members joined and nobody left
C19_Witness ==
    /\ sankeyPc = "written"
    /\ sankeyScript = "create_sankey_diagram"
    /\ \E k \in 1..Len(flows_json) :
          /\ flows_json[k].left = 0
          /\ flows_json[k].joined > 0
          /\ LinksOf(flows_json[k], "joined") = {}
    /\ \E k \in 1..Len(flows_json) :
          /\ flows_json[k].left > 0
          /\ flows_json[k].stayed > 0
          /\ flows_json[k].joined > 0
          /\ Len(sankey_entries) = 3

-----------------------------------------------------------------------------
\* The result file of the cross-organisation matcher

\* cross_org_flows.json has been written
CrossSaved == crossPc = "done"

\* the entries of one direction in the cross_flows of the result file
SavedEntries(direction) ==
    {i \in 1..Len(results.cross_flows) : results.cross_flows[i].direction = direction}

\* C21: in the cross_org_flows.json that was written, every digital_to_connect
\* entry of cross_flows pairs a slug of the NLdigital departed set with a slug of
\* the NLConnect joined set that has the same normalize_slug key, every
\* connect_to_digital entry pairs a slug of the NLConnect departed set with a
\* slug of the NLdigital joined set that has the same key, every dual_members
\* entry pairs a slug of the latest NLdigital snapshot with a slug of the latest
\* NLConnect snapshot that has the same key, and no two entries of one direction
\* and no two dual_members entries have the same key.
C21_SavedMatchesAreSound ==
    CrossSaved =>
        /\ \A i \in SavedEntries("digital_to_connect") :
             LET e == results.cross_flows[i]
             IN  /\ e.nldigital_slug \in nldigital_departed
                 /\ e.nlconnect_slug \in nlconnect_joined
                 /\ normalize_slug(e.nldigital_slug) = normalize_slug(e.nlconnect_slug)
        /\ \A i \in SavedEntries("connect_to_digital") :
             LET e == results.cross_flows[i]
             IN  /\ e.nlconnect_slug \in nlconnect_departed
                 /\ e.nldigital_slug \in nldigital_joined
                 /\ normalize_slug(e.nldigital_slug) = normalize_slug(e.nlconnect_slug)
        /\ \A i \in 1..Len(results.cross_flows) :
             results.cross_flows[i].direction \in {"digital_to_connect", "connect_to_digital"}
        /\ \A direction \in {"digital_to_connect", "connect_to_digital"} :
             \A i, j \in SavedEntries(direction) :
                normalize_slug(results.cross_flows[i].nldigital_slug)
                    = normalize_slug(results.cross_flows[j].nldigital_slug) => i = j
        /\ \A i \in 1..Len(results.dual_members) :
             LET e == results.dual_members[i]
             IN  /\ e.nldigital \in nldigital_current_slugs
                 /\ e.nlconnect \in nlconnect_current
                 /\ normalize_slug(e.nldigital) = normalize_slug(e.nlconnect)
        /\ \A i, j \in 1..Len(results.dual_members) :
             normalize_slug(results.dual_members[i].nldigital)
                 = normalize_slug(results.dual_members[j].nldigital) => i = j

\* the file holds an entry of each direction, one of them pairing two different
\* slugs, and a dual member
C21_Witness ==
    /\ CrossSaved
    /\ \E i \in SavedEntries("digital_to_connect") :
          results.cross_flows[i].nldigital_slug # results.cross_flows[i].nlconnect_slug
    /\ SavedEntries("connect_to_digital") # {}
    /\ Len(results.dual_members) > 0

-----------------------------------------------------------------------------
\* The extractors side by side

\* C22: for every URL, extract_company_name, extract_company_from_url,
\* slugify_nldigital and slugify_url either all return None or all return the
\* same slug.
C22_ExtractorsAgree ==
    extractPc = "done" =>
        /\ company_flow = company_sankey
        /\ company_sankey = company_cross
        /\ company_cross = company_partner

-----------------------------------------------------------------------------
\* Consecutive flow records

\* C23: in the member_flows.json that was written, each record ends at the date
\* the next record starts at, and the members that stayed or joined in a record
\* are the members that stayed or left in the next one (both are the member set
\* of the snapshot the two records share).
C23_RecordsChainOnSharedSnapshot ==
    flowPc = "done" =>
        \A i \in 1..(Len(flow_file) - 1) :
            LET r == flow_file[i]
                s == flow_file[i + 1]
            IN  /\ r.to_date = s.from_date
                /\ ToSet(r.stayed_members) \cup ToSet(r.joined_members)
                     = ToSet(s.stayed_members) \cup ToSet(s.left_members)

\* two records were written; a member joined in the first and left in the second,
\* and another one stayed in both
C23_Witness ==
    /\ flowPc = "done"
    /\ Len(flow_file) = 2
    /\ \E x \in ToSet(flow_file[1].joined_members) : x \in ToSet(flow_file[2].left_members)
    /\ \E y \in ToSet(flow_file[1].stayed_members) : y \in ToSet(flow_file[2].stayed_members)

-----------------------------------------------------------------------------
\* Node labels of the Sankey diagrams

\* C24: for a flow record that a Sankey builder draws, the member count in the
\* label of the from-date node is stayed + left of the record and the count in
\* the label of the to-date node is stayed + joined.
C24_LabelCountsAgreeWithFlow ==
    labelPc = "labelled" =>
        /\ from_count = label_flow.stayed + label_flow.left
        /\ to_count = label_flow.stayed + label_flow.joined

-----------------------------------------------------------------------------
\* Shape of the slugs

\* s holds only a-z, 0-9 and '-', neither starts nor ends with a hyphen and has
\* no two hyphens in a row
WellFormedSlug(s) ==
    /\ \A k \in 1..Len(s) : IsAlnum(s[k]) \/ s[k] = "-"
    /\ Len(s) > 0 => s[1] # "-" /\ s[Len(s)] # "-"
    /\ \A k \in 1..(Len(s) - 1) : ~(s[k] = "-" /\ s[k + 1] = "-")

\* C25: the slug slugify returns holds only a-z, 0-9 and '-', has no hyphen at
\* either end and no two hyphens in a row; the company names the loading loop
\* adds for a URL are such slugs and none of them is the empty string.
C25_SlugsWellFormed ==
    addPc = "done" =>
        /\ WellFormedSlug(name_slug)
        /\ \A s \in names_added : WellFormedSlug(s) /\ s # <<>>

\* a name that is not empty has the empty slug and was not added
C25_Witness ==
    /\ addPc = "done"
    /\ raw_name # <<>>
    /\ name_slug = <<>>
    /\ names_added = {}

-----------------------------------------------------------------------------
\* Exact and fuzzy view

\* C26: once the fuzzy match is computed, the normalize_slug key of every slug
\* of the exact NLdigital-to-NLConnect result is in fuzzy_d2c and the key of
\* every slug of the exact NLConnect-to-NLdigital result is in fuzzy_c2d.
C26_FuzzyCoversExact ==
    FuzzyMatched =>
        /\ \A x \in digital_left_connect_joined : normalize_slug(x) \in fuzzy_d2c
        /\ \A x \in connect_left_digital_joined : normalize_slug(x) \in fuzzy_c2d

\* a slug is in the exact NLdigital-to-NLConnect result and another departed
\* slug has its key
C26_Witness ==
    /\ FuzzyMatched
    /\ \E x \in digital_left_connect_joined :
          \E d \in nldigital_departed : d # x /\ normalize_slug(d) = normalize_slug(x)

-----------------------------------------------------------------------------
\* Empty keys

\* C27: normalize_slug returns a key that is not empty for every slug, so two
\* slugs with the same key share a normalised name that is not empty.
C27_KeyOfSlugNotEmpty ==
    normPc \in {"once", "twice"} =>
        /\ SlugShaped(norm_a) => key_a # <<>>
        /\ (SlugShaped(norm_a) /\ SlugShaped(norm_b) /\ key_a = key_b) => key_a # <<>>

-----------------------------------------------------------------------------
\* Order of the events

\* the positions of the records of list l that hold slug x in the field; record
\* i of a member_flows.json runs from snapshot i to snapshot i + 1
RecordsWith(l, field, x) ==
    {i \in 1..Len(l) : \E k \in 1..Len(l[i][field]) : l[i][field][k] = x}

\* cross_flows has an entry of the direction for the key of slug x
KeyReported(direction, x) ==
    \E i \in 1..Len(cross_flows) :
        /\ cross_flows[i].direction = direction
        /\ normalize_slug(cross_flows[i].nldigital_slug) = normalize_slug(x)

\* C28: a slug that some record of one organisation lists in left_members and
\* some record of the other lists in joined_members is in the exact-match result
\* of that direction, and once the fuzzy match is computed cross_flows holds an
\* entry of that direction for its key, wherever the records stand in the two
\* lists.
C28_MatchIgnoresOrderOfEvents ==
    \A x \in LoadedSlugPool :
        /\ ( /\ RecordsWith(nldigital_flows, "left_members", x) # {}
             /\ RecordsWith(nlconnect_flows, "joined_members", x) # {} )
           => /\ ExactMatched => x \in digital_left_connect_joined
              /\ FuzzyMatched => KeyReported("digital_to_connect", x)
        /\ ( /\ RecordsWith(nlconnect_flows, "left_members", x) # {}
             /\ RecordsWith(nldigital_flows, "joined_members", x) # {} )
           => /\ ExactMatched => x \in connect_left_digital_joined
              /\ FuzzyMatched => KeyReported("connect_to_digital", x)

\* a slug joined NLConnect in a record that stands before the one in which it
\* left NLdigital, and it is reported as gone from NLdigital to NLConnect
C28_Witness ==
    /\ FuzzyMatched
    /\ \E x \in LoadedSlugPool :
          /\ \E i \in RecordsWith(nldigital_flows, "left_members", x) :
                \E j \in RecordsWith(nlconnect_flows, "joined_members", x) : j < i
          /\ x \in digital_left_connect_joined
          /\ KeyReported("digital_to_connect", x)

\* a slug left NLdigital and joined it again in a later record, and it is
\* reported as gone from NLdigital to NLConnect
C28_RejoinedReached ==
    /\ FuzzyMatched
    /\ \E x \in LoadedSlugPool :
          /\ \E i \in RecordsWith(nldigital_flows, "left_members", x) :
                \E j \in RecordsWith(nldigital_flows, "joined_members", x) : i < j
          /\ x \in digital_left_connect_joined

-----------------------------------------------------------------------------
\* The summary of a snapshot fetcher

\* a snapshot fetcher has written summary.json
SummaryWritten == fetchScript \in SnapshotFetchers /\ fetchPc = "done"

\* the items whose GET came back with status 200 and whose page was parsed and
\* saved without an exception
SavedItems ==
    {net_log[k].item : k \in {j \in 1..Len(net_log) :
                                 net_log[j].op = "get" /\ net_log[j].outcome = "ok"}}

-----------------------------------------------------------------------------
\* The bookkeeping of the logo fetcher

\* C30: at every point of the loop of the logo fetcher each member gone through
\* is either in logos or in failed and in no case in both, no member is listed
\* twice, success_count is the number of entries of logos, and after the loop
\* success_count and the length of failed add up to the number of members.
C30_LogoBookkeeping ==
    fetchScript = "fetch_company_logos_live" =>
        /\ ToSet(fetched) \cup ToSet(failed) = 1..item_idx
        /\ ToSet(fetched) \cap ToSet(failed) = {}
        /\ Len(fetched) + Len(failed) = item_idx
        /\ success_count = Cardinality(ToSet(fetched))
        /\ fetchPc \in {"save", "done"} => success_count + Len(failed) = nItems

\* the loop is over two members, a logo was found for one of them and none for
\* the other
C30_Witness ==
    /\ fetchScript = "fetch_company_logos_live"
    /\ fetchPc = "done"
    /\ nItems = 2
    /\ success_count = 1
    /\ Len(failed) = 1

================================================================================
